---- MODULE Spec2Model ----
(***************************************************************************)
(* Model of the smeecher graph engine (server/src/graph/engine.py):        *)
(* the streaming index build (GraphEngine.build_from_db) and the bitmap    *)
(* query methods (intersect, filter_bitmap, avg_placement_for_bitmap).     *)
(*                                                                         *)
(* A roaring BitMap is modelled as a finite set of player-match ids, a     *)
(* numpy array as a function over 0..max_id, a Python list as a sequence,  *)
(* a dict keyed by token id as a function over 0..n-1, and a float average *)
(* as an exact fraction [num, den].                                        *)
(***************************************************************************)
EXTENDS Integers, Sequences, FiniteSets, TLC

(***************************************************************************)
(* Bounds of the model.                                                    *)
(***************************************************************************)
MaxPm == 2          \* largest player_matches.id in the database
MaxRows == 3        \* rows of the units JOIN
MaxStar == 3        \* largest units.tier value in the database
MaxItems == 3       \* length of a unit's items list
MaxTraits == 2      \* trait entries in the database
MaxTraitTier == 3   \* largest trait tier reported
MaxInclude == 2     \* length of an include token list
MaxExclude == 1     \* length of an exclude token list

NoBoard == 0        \* current_pm_id = None (sqlite AUTOINCREMENT ids start at 1)

PlacementValues == {1, 4, 8}

VARIABLES
    phase,              \* position in build_from_db: "units", "traits", then "built"
    max_id,             \* SELECT MAX(pm.id): sizes the placement array
    placements,         \* self.placements
    all_players,        \* self.all_players
    id_to_token,        \* self.id_to_token (self.token_to_id is its inverse)
    token_data,         \* build accumulator: token_id -> (ids, psum)
    tokens,             \* self.tokens: token_id -> TokenStats
    current_pm_id,      \* build local
    current_placement,  \* build local
    board_items,        \* build local: distinct items of the current board
    board_unit_count,   \* build local: unit rows of the current board
    unit_rows,          \* rows of the units JOIN the first pass has read
    trait_rows,         \* pm id -> traits list, for the rows the second pass has read
    last_call,          \* the last query call: its arguments and its result
    labels,             \* self.labels: token_id -> display label
    necessity,          \* the self.necessity_top4_* arrays and necessity_top4_ready
    engine_file,        \* DATA_DIR/engine.bin
    loaded,             \* outcome of the last GraphEngine.load
    db_labels,          \* the labels build_from_db gives for the database
    ENGINE,             \* server.py ENGINE: "unset" before lifespan, "none" or "engine"
    response,           \* the response to the request the server has answered
    CACHE,              \* clustering.py _CACHE: entries in OrderedDict order
    MEMBERS_CACHE,      \* clustering.py _MEMBERS_CACHE, likewise
    CACHE_LOCK,         \* the thread that holds _CACHE_LOCK, 0 when it is free
    clock,              \* time.time(), in seconds from the server start
    threads,            \* where each request thread is in its handler
    voice_ip_state,     \* server.py _voice_ip_state: ip -> last, minute, hour
    voice_global_state, \* server.py _voice_global_state: minute, concurrent
    voice_requests,     \* the POST /realtime-session requests and where each one is
    voice_clock,        \* time.time() as the rate limiter reads it, in seconds
    scrape_queue,       \* the scrape_queue table: puuid -> last_scraped_at, priority
    scraper,            \* where TFTScraper.run is in its loop, and the puuid it holds
    scrape_clock,       \* the database's CURRENT_TIMESTAMP, in minutes
    marked_at           \* puuid -> the time of its last mark_scraped, Never if none

engine_vars == <<max_id, placements, all_players, id_to_token, tokens, labels, necessity>>
build_vars == <<phase, token_data, current_pm_id, current_placement,
                board_items, board_unit_count, unit_rows, trait_rows, db_labels>>
query_vars == <<last_call>>
codec_vars == <<engine_file, loaded>>
server_vars == <<ENGINE, response>>
service_vars == <<codec_vars, server_vars>>
cluster_vars == <<CACHE, MEMBERS_CACHE, CACHE_LOCK, clock, threads>>
voice_vars == <<voice_ip_state, voice_global_state, voice_requests, voice_clock>>
scraper_vars == <<scrape_queue, scraper, scrape_clock, marked_at>>
side_vars == <<voice_vars, scraper_vars>>
vars == <<engine_vars, build_vars, query_vars, service_vars, cluster_vars, side_vars>>

(***************************************************************************)
(* Generic helpers.                                                        *)
(***************************************************************************)
Range(s) == {s[i] : i \in DOMAIN s}

RECURSIVE SumOver(_, _)
SumOver(f, S) ==
    IF S = {} THEN 0
    ELSE LET x == CHOOSE y \in S : TRUE
         IN f[x] + SumOver(f, S \ {x})

SeqsUpTo(S, n) == UNION {[1..k -> S] : k \in 0..n}

Orders(S) ==
    {s \in [1..Cardinality(S) -> S] : \A i, j \in DOMAIN s : i # j => s[i] # s[j]}

(***************************************************************************)
(* Name normalisation.  str.replace removes the set prefixes; the raw      *)
(* names of the model are listed with their cleaned form.                  *)
(***************************************************************************)
clean_unit_name(name) ==
    CASE name = "TFT16_A" -> "A"
      [] name = "TFT16_B" -> "B"
      [] name = "TFT_A" -> "A"
      [] OTHER -> name

clean_item_name(item_id) ==
    CASE item_id = "TFT_Item_I" -> "I"
      [] item_id = "TFT16_Item_J" -> "J"
      [] item_id = "TFT_Item_EmptyBag" -> "EmptyBag"
      [] OTHER -> item_id

clean_trait_name(name) ==
    CASE name = "TFT16_D" -> "D"
      [] name = "Set16_D" -> "D"
      [] name = "TFT16_G" -> "G"
      [] OTHER -> name

(***************************************************************************)
(* Token id map.                                                           *)
(***************************************************************************)
HasToken(idt, token) == \E i \in DOMAIN idt : idt[i] = token

token_to_id(idt, token) == CHOOSE i \in DOMAIN idt : idt[i] = token

get_or_create_token_id(idt, token) ==
    IF HasToken(idt, token) THEN idt
    ELSE LET token_id == Cardinality(DOMAIN idt)
         IN [i \in 0..token_id |-> IF i < token_id THEN idt[i] ELSE token]

\* The block repeated for every emitted token: get or create the id, then
\* append the pm id to the token's list and add the placement to its psum.
add_token(b, token, pm_id, placement) ==
    LET idt == get_or_create_token_id(b.id_to_token, token)
        token_id == token_to_id(idt, token)
        old == IF token_id \in DOMAIN b.token_data
               THEN b.token_data[token_id]
               ELSE [ids |-> <<>>, psum |-> 0]
        new == [ids |-> Append(old.ids, pm_id), psum |-> old.psum + placement]
    IN [id_to_token |-> idt,
        token_data |-> [i \in DOMAIN idt |->
                           IF i = token_id THEN new ELSE b.token_data[i]]]

(***************************************************************************)
(* First pass: one row of the units JOIN.                                  *)
(***************************************************************************)
\* flush_board: item presence tokens of the finished board.  board_items is
\* a Python set, so the iteration order `order` is not fixed by the code.
RECURSIVE flush_items(_, _, _, _)
flush_items(b, order, pm_id, placement) ==
    IF order = <<>> THEN b
    ELSE flush_items(add_token(b, "I:" \o Head(order), pm_id, placement),
                     Tail(order), pm_id, placement)

flush_board(b, order) ==
    IF current_pm_id = NoBoard THEN b
    ELSE flush_items(b, order, current_pm_id, current_placement)

\* item_counts: per unit row, item name -> copies, in first-seen order.
RECURSIVE item_counts(_)
item_counts(items) ==
    IF items = <<>> THEN <<>>
    ELSE LET before == item_counts(SubSeq(items, 1, Len(items) - 1))
             item_name == clean_item_name(items[Len(items)])
         IN IF item_name = "EmptyBag" THEN before
            ELSE IF \E i \in DOMAIN before : before[i].name = item_name
            THEN [i \in DOMAIN before |->
                     IF before[i].name = item_name
                     THEN [name |-> item_name, n |-> before[i].n + 1]
                     ELSE before[i]]
            ELSE Append(before, [name |-> item_name, n |-> 1])

\* Variant: `n_copies > 2` and `n_copies > 3` in place of `>=`.
equipped_count_levels_strict(n_copies) ==
    {k \in {2, 3} : n_copies > k}

\* Count tokens emitted next to E:Unit|Item for n_copies copies.
equipped_count_levels(n_copies) ==
    {k \in {2, 3} : n_copies >= k}

equipped_tokens(unit_name, item_name, n_copies) ==
    <<"E:" \o unit_name \o "|" \o item_name>>
    \o (IF 2 \in equipped_count_levels(n_copies)
        THEN <<"E:" \o unit_name \o "|" \o item_name \o ":2">> ELSE <<>>)
    \o (IF 3 \in equipped_count_levels(n_copies)
        THEN <<"E:" \o unit_name \o "|" \o item_name \o ":3">> ELSE <<>>)

RECURSIVE add_tokens(_, _, _, _)
add_tokens(b, toks, pm_id, placement) ==
    IF toks = <<>> THEN b
    ELSE add_tokens(add_token(b, Head(toks), pm_id, placement),
                    Tail(toks), pm_id, placement)

RECURSIVE add_equipped(_, _, _, _, _)
add_equipped(b, unit_name, counts, pm_id, placement) ==
    IF counts = <<>> THEN b
    ELSE add_equipped(
             add_tokens(b, equipped_tokens(unit_name, Head(counts).name, Head(counts).n),
                        pm_id, placement),
             unit_name, Tail(counts), pm_id, placement)

\* Star-level token of a unit row.
unit_star_token(unit_name, unit_tier) ==
    "U:" \o unit_name \o ":" \o ToString(unit_tier)

\* Variant: the base token is emitted in the else branch of the star check.
unit_tokens_base_in_else(unit_name, unit_tier) ==
    IF unit_tier >= 2 THEN <<unit_star_token(unit_name, unit_tier)>>
    ELSE <<"U:" \o unit_name, unit_star_token(unit_name, unit_tier)>>

unit_tokens(unit_name, unit_tier) ==
    <<"U:" \o unit_name>>
    \o (IF unit_tier >= 1 THEN <<unit_star_token(unit_name, unit_tier)>> ELSE <<>>)

process_unit(b, pm_id, placement, unit_name_raw, unit_tier, items) ==
    LET unit_name == clean_unit_name(unit_name_raw)
        b1 == add_tokens(b, unit_tokens(unit_name, unit_tier), pm_id, placement)
    IN add_equipped(b1, unit_name, item_counts(items), pm_id, placement)

ItemNames(items) == {item_counts(items)[i].name : i \in DOMAIN item_counts(items)}

(***************************************************************************)
(* Display labels.  Every emission of a token is followed by               *)
(* `self.labels[token_id] = label`; the label sequences below run parallel *)
(* to the token sequences above.                                           *)
(***************************************************************************)
RECURSIVE set_labels(_, _, _, _)
set_labels(lab, idt, toks, labs) ==
    IF toks = <<>> THEN lab
    ELSE LET token_id == token_to_id(idt, Head(toks))
         IN set_labels([i \in DOMAIN lab \cup {token_id} |->
                           IF i = token_id THEN Head(labs) ELSE lab[i]],
                       idt, Tail(toks), Tail(labs))

flush_tokens(order) ==
    IF current_pm_id = NoBoard THEN <<>>
    ELSE [i \in DOMAIN order |-> "I:" \o order[i]]

flush_labels(order) ==
    IF current_pm_id = NoBoard THEN <<>> ELSE order

unit_labels(unit_name, unit_tier) ==
    <<unit_name>>
    \o (IF unit_tier >= 1 THEN <<unit_name \o " " \o ToString(unit_tier)>> ELSE <<>>)

equipped_labels(unit_name, item_name, n_copies) ==
    <<unit_name \o " + " \o item_name>>
    \o (IF 2 \in equipped_count_levels(n_copies)
        THEN <<unit_name \o " + " \o item_name \o " x2">> ELSE <<>>)
    \o (IF 3 \in equipped_count_levels(n_copies)
        THEN <<unit_name \o " + " \o item_name \o " x3">> ELSE <<>>)

RECURSIVE unit_equipped_tokens(_, _)
unit_equipped_tokens(unit_name, counts) ==
    IF counts = <<>> THEN <<>>
    ELSE equipped_tokens(unit_name, Head(counts).name, Head(counts).n)
         \o unit_equipped_tokens(unit_name, Tail(counts))

RECURSIVE unit_equipped_labels(_, _)
unit_equipped_labels(unit_name, counts) ==
    IF counts = <<>> THEN <<>>
    ELSE equipped_labels(unit_name, Head(counts).name, Head(counts).n)
         \o unit_equipped_labels(unit_name, Tail(counts))

unit_row_tokens(unit_name_raw, unit_tier, items) ==
    LET unit_name == clean_unit_name(unit_name_raw)
    IN unit_tokens(unit_name, unit_tier)
       \o unit_equipped_tokens(unit_name, item_counts(items))

unit_row_labels(unit_name_raw, unit_tier, items) ==
    LET unit_name == clean_unit_name(unit_name_raw)
    IN unit_labels(unit_name, unit_tier)
       \o unit_equipped_labels(unit_name, item_counts(items))

\* One iteration of `for row in c` of the first pass.  unit_name_raw = "None"
\* is the LEFT JOIN row of a player match without units.
ProcessUnitRow(pm_id, placement, unit_name_raw, unit_tier, items, order) ==
    /\ phase = "units"
    /\ pm_id \in 1..max_id
    /\ pm_id >= current_pm_id                     \* ORDER BY pm.id
    /\ Len(unit_rows) < MaxRows
    /\ order \in Orders(board_items)
    /\ LET new_board == pm_id # current_pm_id
           b0 == [id_to_token |-> id_to_token, token_data |-> token_data]
           b1 == IF new_board THEN flush_board(b0, order) ELSE b0
           is_unit == unit_name_raw # "None"
           b2 == IF is_unit
                 THEN process_unit(b1, pm_id, placement, unit_name_raw, unit_tier, items)
                 ELSE b1
       IN /\ new_board \/ (is_unit /\ board_unit_count >= 1
                           /\ placement = current_placement
                           /\ order = CHOOSE o \in Orders(board_items) : TRUE)
          /\ current_pm_id' = pm_id
          /\ current_placement' = (IF new_board THEN placement ELSE current_placement)
          /\ placements' = (IF new_board
                            THEN [placements EXCEPT ![pm_id] = placement]
                            ELSE placements)
          /\ all_players' = (IF new_board THEN all_players \cup {pm_id} ELSE all_players)
          /\ board_items' = (IF new_board THEN {} ELSE board_items)
                            \cup (IF is_unit THEN ItemNames(items) ELSE {})
          /\ board_unit_count' = (IF new_board THEN 0 ELSE board_unit_count)
                                 + (IF is_unit THEN 1 ELSE 0)
          /\ id_to_token' = b2.id_to_token
          /\ token_data' = b2.token_data
          /\ labels' = set_labels(
                 labels, b2.id_to_token,
                 (IF new_board THEN flush_tokens(order) ELSE <<>>)
                 \o (IF is_unit THEN unit_row_tokens(unit_name_raw, unit_tier, items)
                     ELSE <<>>),
                 (IF new_board THEN flush_labels(order) ELSE <<>>)
                 \o (IF is_unit THEN unit_row_labels(unit_name_raw, unit_tier, items)
                     ELSE <<>>))
    /\ unit_rows' = Append(unit_rows, [pm_id |-> pm_id, unit_name |-> unit_name_raw,
                                       unit_tier |-> unit_tier, items |-> items])
    /\ UNCHANGED <<phase, max_id, tokens, trait_rows, query_vars, necessity, db_labels, service_vars, cluster_vars, side_vars>>

\* End of the first pass: `flush_board()` for the last board.  The result set
\* is complete: its last row belongs to the player match with the largest id.
EndUnitPass(order) ==
    /\ phase = "units"
    /\ current_pm_id = max_id
    /\ order \in Orders(board_items)
    /\ LET b == flush_board([id_to_token |-> id_to_token, token_data |-> token_data], order)
       IN /\ id_to_token' = b.id_to_token
          /\ token_data' = b.token_data
          /\ labels' = set_labels(labels, b.id_to_token,
                                  flush_tokens(order), flush_labels(order))
    /\ phase' = "traits"
    /\ UNCHANGED <<max_id, placements, all_players, tokens, current_pm_id,
                   current_placement, board_items, board_unit_count, unit_rows,
                   trait_rows, query_vars, necessity, db_labels, service_vars, cluster_vars, side_vars>>

(***************************************************************************)
(* Second pass: one row of the traits query.                               *)
(***************************************************************************)
\* tier = int(trait.get("tier", 1) or 1)
trait_tier(trait) == IF trait.tier = 0 THEN 1 ELSE trait.tier

\* Variant: range(2, tier) in place of range(2, tier + 1).
trait_levels_exclusive(tier) == IF tier >= 2 THEN 2..(tier - 1) ELSE {}

\* Tier levels that get a T:<Trait>:<k> token for a reported tier.
trait_levels(tier) == IF tier >= 2 THEN 2..tier ELSE {}

RECURSIVE trait_level_tokens(_, _, _)
trait_level_tokens(trait_name, t_level, tier) ==
    IF t_level \notin trait_levels(tier) THEN <<>>
    ELSE <<"T:" \o trait_name \o ":" \o ToString(t_level)>>
         \o trait_level_tokens(trait_name, t_level + 1, tier)

trait_tokens(trait) ==
    LET trait_name == clean_trait_name(trait.name)
    IN <<"T:" \o trait_name>> \o trait_level_tokens(trait_name, 2, trait_tier(trait))

trait_labels(trait) ==
    LET trait_name == clean_trait_name(trait.name)
    IN <<trait_name>>
       \o [i \in 1..Cardinality(trait_levels(trait_tier(trait))) |->
              trait_name \o " " \o ToString(i + 1)]

RECURSIVE traits_tokens(_)
traits_tokens(traits) ==
    IF traits = <<>> THEN <<>>
    ELSE trait_tokens(Head(traits)) \o traits_tokens(Tail(traits))

RECURSIVE traits_labels(_)
traits_labels(traits) ==
    IF traits = <<>> THEN <<>>
    ELSE trait_labels(Head(traits)) \o traits_labels(Tail(traits))

RECURSIVE process_traits(_, _, _, _)
process_traits(b, traits, pm_id, placement) ==
    IF traits = <<>> THEN b
    ELSE process_traits(add_tokens(b, trait_tokens(Head(traits)), pm_id, placement),
                        Tail(traits), pm_id, placement)

\* One iteration of `for row in c` of the second pass (rows come in no
\* particular order, one per player match with a non-NULL traits column).
TraitEntries == SumOver([p \in DOMAIN trait_rows |-> Len(trait_rows[p])], DOMAIN trait_rows)

ProcessTraitRow(pm_id, traits) ==
    /\ phase = "traits"
    /\ pm_id \in all_players \ DOMAIN trait_rows
    /\ TraitEntries + Len(traits) <= MaxTraits
    /\ LET b == process_traits([id_to_token |-> id_to_token, token_data |-> token_data],
                               traits, pm_id, placements[pm_id])
       IN /\ id_to_token' = b.id_to_token
          /\ token_data' = b.token_data
          /\ labels' = set_labels(labels, b.id_to_token,
                                  traits_tokens(traits), traits_labels(traits))
    /\ trait_rows' = [p \in DOMAIN trait_rows \cup {pm_id} |->
                         IF p = pm_id THEN traits ELSE trait_rows[p]]
    /\ UNCHANGED <<phase, max_id, placements, all_players, tokens, current_pm_id,
                   current_placement, board_items, board_unit_count, unit_rows,
                   query_vars, necessity, db_labels, service_vars, cluster_vars, side_vars>>

(***************************************************************************)
(* Conversion of the accumulators to TokenStats.                           *)
(***************************************************************************)
\* Variant: the running psum, which counts a board once per emission.
token_placement_sum_running(data, unique_ids) == data.psum

\* placement_sum of a token: recomputed from the placement array over the
\* de-duplicated ids, not taken from the running psum.
token_placement_sum(data, unique_ids) == SumOver(placements, unique_ids)

token_stats(data) ==
    LET unique_ids == Range(data.ids)
    IN [bitmap |-> unique_ids,
        placement_sum |-> token_placement_sum(data, unique_ids),
        count |-> Cardinality(unique_ids)]

FinishBuild ==
    /\ phase = "traits"
    /\ tokens' = [token_id \in DOMAIN token_data |-> token_stats(token_data[token_id])]
    /\ phase' = "built"
    /\ db_labels' = labels
    /\ UNCHANGED <<max_id, placements, all_players, id_to_token, token_data, labels,
                   current_pm_id, current_placement, board_items, board_unit_count,
                   unit_rows, trait_rows, query_vars, necessity, service_vars, cluster_vars, side_vars>>

(***************************************************************************)
(* Query methods.                                                          *)
(***************************************************************************)
\* token_id is not None and token_id in self.tokens
KnownToken(token) ==
    /\ HasToken(id_to_token, token)
    /\ token_to_id(id_to_token, token) \in DOMAIN tokens

bitmap_of(token) == tokens[token_to_id(id_to_token, token)].bitmap

\* Variant: only bitmaps[0] is used, the loop over bitmaps[1:] is lost.
intersect_rest_first_only(result, token_strs) == result

\* Variant: `result |= bm` in place of `result &= bm`.
RECURSIVE intersect_rest_union(_, _)
intersect_rest_union(result, token_strs) ==
    IF token_strs = <<>> THEN result
    ELSE intersect_rest_union(result \cup bitmap_of(Head(token_strs)), Tail(token_strs))

\* `result &= bm` over bitmaps[1:], left to right.
RECURSIVE intersect_rest(_, _)
intersect_rest(result, token_strs) ==
    IF token_strs = <<>> THEN result
    ELSE intersect_rest(result \cap bitmap_of(Head(token_strs)), Tail(token_strs))

\* Variant: an empty token list gives the empty bitmap.
intersect_empty_is_empty(token_strs) ==
    IF token_strs = <<>> THEN {}
    ELSE IF \E i \in DOMAIN token_strs : ~KnownToken(token_strs[i]) THEN {}
    ELSE intersect_rest(bitmap_of(Head(token_strs)), Tail(token_strs))

\* Variant: unknown tokens are skipped instead of emptying the result.
intersect_skip_unknown(token_strs) ==
    LET known == SelectSeq(token_strs, KnownToken)
    IN IF token_strs = <<>> THEN all_players
       ELSE IF known = <<>> THEN {}
       ELSE intersect_rest(bitmap_of(Head(known)), Tail(known))

intersect(token_strs) ==
    IF token_strs = <<>> THEN all_players
    ELSE IF \E i \in DOMAIN token_strs : ~KnownToken(token_strs[i]) THEN {}
    ELSE intersect_rest(bitmap_of(Head(token_strs)), Tail(token_strs))

\* `exclude_bm |= stats.bitmap` over the known exclude tokens.
RECURSIVE exclude_union(_)
exclude_union(exclude_tokens) ==
    IF exclude_tokens = <<>> THEN {}
    ELSE (IF KnownToken(Head(exclude_tokens)) THEN bitmap_of(Head(exclude_tokens)) ELSE {})
         \cup exclude_union(Tail(exclude_tokens))

\* Variant: the exclude bitmap is computed but never subtracted.
filter_bitmap_no_subtract(include_tokens, exclude_tokens) ==
    intersect(include_tokens)

filter_bitmap(include_tokens, exclude_tokens) ==
    LET base == intersect(include_tokens)
        exclude_bm == exclude_union(exclude_tokens)
    IN IF base = {} THEN base
       ELSE IF exclude_tokens = <<>> THEN base
       ELSE IF exclude_bm # {} THEN base \ exclude_bm
       ELSE base

\* ---- bitmap objects ----
\* A bitmap a query holds is an object: `owner` says where the engine stores
\* it (AllPlayers, or the bitmap of a token id), or that the query made it;
\* `bits` is its content.  An in-place operator (&=, |=, -=) changes the
\* content of the object it is applied to, whoever owns it.
FreshOwner == [kind |-> "fresh", id |-> 0]

\* BitMap()
new_bitmap == [owner |-> FreshOwner, bits |-> {}]

\* self.all_players
all_players_object == [owner |-> [kind |-> "all_players", id |-> 0], bits |-> all_players]

\* self.tokens[token_id].bitmap
stored_bitmap(token) ==
    [owner |-> [kind |-> "token", id |-> token_to_id(id_to_token, token)],
     bits |-> bitmap_of(token)]

\* Variant: the stored object itself is handed on.
copy_alias(obj) == obj

\* BitMap.copy()
copy(obj) == [owner |-> FreshOwner, bits |-> obj.bits]

\* `obj &= ...`, `obj -= ...`: the same object with the content `bits`
inplace(obj, bits) == [obj EXCEPT !.bits = bits]

\* The object intersect returns: the copy of AllPlayers, a new empty bitmap,
\* or the copy of bitmaps[0] after `result &= bm` over bitmaps[1:].
intersect_object(token_strs) ==
    IF token_strs = <<>> THEN copy(all_players_object)
    ELSE IF \E i \in DOMAIN token_strs : ~KnownToken(token_strs[i]) THEN new_bitmap
    ELSE inplace(copy(stored_bitmap(Head(token_strs))), intersect(token_strs))

\* The object filter_bitmap returns: `base` after `base -= exclude_bm`;
\* exclude_bm is a new bitmap.
filter_bitmap_object(include_tokens, exclude_tokens) ==
    inplace(intersect_object(include_tokens), filter_bitmap(include_tokens, exclude_tokens))

\* The engine's stored bitmaps once the in-place operators on `obj` have run.
tokens_after(obj) ==
    IF obj.owner.kind = "token"
    THEN [tokens EXCEPT ![obj.owner.id].bitmap = obj.bits]
    ELSE tokens

all_players_after(obj) ==
    IF obj.owner.kind = "all_players" THEN obj.bits ELSE all_players

\* A call that has worked on the bitmap object `obj` leaves the rest of the
\* engine alone.
EngineAfter(obj) ==
    /\ tokens' = tokens_after(obj)
    /\ all_players' = all_players_after(obj)
    /\ UNCHANGED <<max_id, placements, id_to_token, labels, necessity>>

\* The float mean as the exact fraction num/den; 4.5 = 9/2 for an empty bitmap.
avg_placement_for_bitmap(bitmap) ==
    IF bitmap = {} THEN [num |-> 9, den |-> 2]
    ELSE [num |-> SumOver(placements, bitmap), den |-> Cardinality(bitmap)]

NoCall == [op |-> "none", include |-> <<>>, exclude |-> <<>>, bitmap |-> {},
           avg |-> [num |-> 0, den |-> 1]]

\* One call is recorded per behaviour: a call leaves the engine as it found
\* it, so a later call computes what a first call computes.
FilterBitmap(include_tokens, exclude_tokens) ==
    /\ phase = "built"
    /\ last_call.op = "none"
    /\ last_call' = [op |-> "filter_bitmap",
                     include |-> include_tokens, exclude |-> exclude_tokens,
                     bitmap |-> filter_bitmap(include_tokens, exclude_tokens),
                     avg |-> NoCall.avg]
    /\ EngineAfter(filter_bitmap_object(include_tokens, exclude_tokens))
    /\ UNCHANGED <<build_vars, service_vars, cluster_vars, side_vars>>

AvgPlacementForBitmap(bitmap) ==
    /\ phase = "built"
    /\ last_call.op = "none"
    /\ bitmap \subseteq all_players
    /\ last_call' = [op |-> "avg_placement_for_bitmap",
                     include |-> <<>>, exclude |-> <<>>,
                     bitmap |-> bitmap,
                     avg |-> avg_placement_for_bitmap(bitmap)]
    /\ UNCHANGED <<engine_vars, build_vars, service_vars, cluster_vars, side_vars>>

(***************************************************************************)
(* Necessity cache (engine.bin v3).  Of the twelve necessity_top4_* arrays *)
(* the model keeps one of each dtype: tau (float32), n_used (int32) and    *)
(* scope_min_star (uint8); the others are allocated, written, saved and    *)
(* loaded by the same statements.  A float32 is an opaque value, NaN one   *)
(* of them.                                                                *)
(***************************************************************************)
NaN == "nan"

isfinite(x) == x # NaN

NoNecessity ==
    [allocated |-> FALSE, ready |-> FALSE,
     tau |-> <<>>, n_used |-> <<>>, scope_min_star |-> <<>>]

init_necessity_cache_top4(nec, n_tokens) ==
    [allocated |-> TRUE, ready |-> nec.ready,
     tau |-> [i \in 0..(n_tokens - 1) |-> NaN],
     n_used |-> [i \in 0..(n_tokens - 1) |-> 0],
     scope_min_star |-> [i \in 0..(n_tokens - 1) |-> 0]]

\* Names of the model's databases after cleaning.
UnitNames == {"A", "B"}
ItemNameSet == {"I", "J"}

\* [t for t in self.id_to_token if t.startswith(f"E:{unit}|")]
equipped_tokens_of(unit) ==
    {"E:" \o unit \o "|" \o item \o suffix :
        item \in ItemNameSet, suffix \in {"", ":2", ":3"}}

equipped_token_ids ==
    {i \in DOMAIN id_to_token :
        \E unit \in UnitNames :
            /\ HasToken(id_to_token, "U:" \o unit)
            /\ id_to_token[i] \in equipped_tokens_of(unit)}

unit_of_equipped(token) == CHOOSE unit \in UnitNames : token \in equipped_tokens_of(unit)

\* star2plus_bm: the union of the U:<unit>:s bitmaps, s in 2..6.
star2plus_bm(unit) ==
    UNION {tokens[i].bitmap :
             i \in {j \in DOMAIN tokens :
                      \E s \in 2..6 : id_to_token[j] = "U:" \o unit \o ":" \o ToString(s)}}

\* What the estimation of one equipped token ends with: skipped (a group
\* below min_group, OverlapError or another exception) or an estimate.
EstimateOutcomes ==
    {[computed |-> FALSE, tau |-> NaN, n_used |-> 0],
     [computed |-> TRUE, tau |-> "0.12", n_used |-> 240],
     [computed |-> TRUE, tau |-> "-0.05", n_used |-> 310]}

\* precompute_necessity_cache_top4: allocate the arrays, then store the
\* estimate of every equipped token whose estimation succeeds.  The sample
\* thresholds and the AIPW fit decide `est`; the 2-star share decides `scope`.
PrecomputeNecessityCacheTop4(est, scope) ==
    /\ phase = "built"
    /\ id_to_token # <<>>
    /\ est \in [equipped_token_ids -> EstimateOutcomes]
    /\ scope \in [UnitNames -> 1..2]
    /\ \A unit \in UnitNames : scope[unit] = 2 => star2plus_bm(unit) # {}
    /\ LET fresh == init_necessity_cache_top4(necessity, Cardinality(DOMAIN id_to_token))
           done == {i \in equipped_token_ids : est[i].computed}
           tau == [i \in DOMAIN fresh.tau |-> IF i \in done THEN est[i].tau ELSE NaN]
       IN necessity' =
            [allocated |-> TRUE,
             ready |-> \E i \in DOMAIN tau : isfinite(tau[i]),
             tau |-> tau,
             n_used |-> [i \in DOMAIN fresh.n_used |->
                            IF i \in done THEN est[i].n_used ELSE 0],
             scope_min_star |-> [i \in DOMAIN fresh.scope_min_star |->
                            IF i \in done
                            THEN scope[unit_of_equipped(id_to_token[i])] ELSE 0]]
    /\ phase' = "precomputed"
    /\ UNCHANGED <<max_id, placements, all_players, id_to_token, tokens, labels,
                   token_data, current_pm_id, current_placement, board_items,
                   board_unit_count, unit_rows, trait_rows, db_labels, query_vars,
                   service_vars, cluster_vars, side_vars>>

(***************************************************************************)
(* Display names applied by build_engine before the cache is computed.     *)
(* The trait variants act on T: tokens only.                               *)
(***************************************************************************)
\* str.lower over the item names of the model
lower(name) ==
    CASE name = "I" -> "i"
      [] name = "J" -> "j"
      [] OTHER -> name

\* The label apply_item_display_names gives a token, or the label it has.
item_display_label(item_display_names, token, label) ==
    LET as_item == {item \in ItemNameSet :
                       /\ token = "I:" \o item
                       /\ lower(item) \in DOMAIN item_display_names}
        as_equipped == {x \in UnitNames \X ItemNameSet \X {1, 2, 3} :
                           /\ token = "E:" \o x[1] \o "|" \o x[2]
                                      \o (IF x[3] >= 2 THEN ":" \o ToString(x[3]) ELSE "")
                           /\ lower(x[2]) \in DOMAIN item_display_names}
    IN IF as_item # {}
       THEN item_display_names[lower(CHOOSE item \in as_item : TRUE)]
       ELSE IF as_equipped # {}
       THEN LET x == CHOOSE y \in as_equipped : TRUE
            IN x[1] \o " + " \o item_display_names[lower(x[2])]
               \o (IF x[3] >= 2 THEN " x" \o ToString(x[3]) ELSE "")
       ELSE label

ApplyItemDisplayNames(item_display_names) ==
    /\ phase = "built"
    /\ labels' = [token_id \in DOMAIN labels |->
                    item_display_label(item_display_names, id_to_token[token_id],
                                       labels[token_id])]
    /\ UNCHANGED <<max_id, placements, all_players, id_to_token, tokens, necessity,
                   build_vars, query_vars, service_vars, cluster_vars, side_vars>>

(***************************************************************************)
(* Snapshot codec: GraphEngine.save and GraphEngine.load.                  *)
(* The file is the record of its fields in file order; an array is written *)
(* as the sequence of its elements and a bitmap as its cardinality         *)
(* followed by its members in increasing order.  The proxy arrays and      *)
(* total_matches are not part of the model's engine.                       *)
(***************************************************************************)
NoFile == [exists |-> FALSE]

NotLoaded == [status |-> "none"]

\* The engine object of the building process.
CurrentEngine ==
    [placements |-> placements, all_players |-> all_players,
     id_to_token |-> id_to_token, tokens |-> tokens, labels |-> labels,
     necessity |-> necessity]

SortedSeq(S) ==
    CHOOSE s \in Orders(S) : \A i, j \in DOMAIN s : i < j => s[i] < s[j]

\* BitMap.serialize / BitMap.deserialize
serialize(bitmap) == <<Cardinality(bitmap)>> \o SortedSeq(bitmap)

deserialize(bytes) == {bytes[i] : i \in 2..Len(bytes)}

\* ndarray.tobytes / np.frombuffer(...).copy()
tobytes(arr) == [i \in 1..Cardinality(DOMAIN arr) |-> arr[i - 1]]

frombuffer(bytes) == [i \in 0..(Len(bytes) - 1) |-> bytes[i + 1]]

\* Variant: the shape test inverted, so an allocated array is replaced.
float_arr_inverted(allocated, arr, n_tokens) ==
    IF allocated /\ Cardinality(DOMAIN arr) = n_tokens
    THEN [i \in 0..(n_tokens - 1) |-> NaN]
    ELSE arr

float_arr(allocated, arr, n_tokens) ==
    IF ~allocated \/ Cardinality(DOMAIN arr) # n_tokens
    THEN [i \in 0..(n_tokens - 1) |-> NaN]
    ELSE arr

int_arr(allocated, arr, n_tokens) ==
    IF ~allocated \/ Cardinality(DOMAIN arr) # n_tokens
    THEN [i \in 0..(n_tokens - 1) |-> 0]
    ELSE arr

save(E) ==
    LET n_tokens == Cardinality(DOMAIN E.id_to_token)
        nec == E.necessity
    IN [exists |-> TRUE,
        magic |-> "SMEE",
        version |-> 3,
        placements_len |-> Cardinality(DOMAIN E.placements),
        num_tokens |-> n_tokens,
        placements |-> tobytes(E.placements),
        all_players |-> serialize(E.all_players),
        token_strs |-> tobytes(E.id_to_token),
        labels |-> [i \in 1..n_tokens |->
                       IF (i - 1) \in DOMAIN E.labels THEN E.labels[i - 1] ELSE ""],
        stats |-> [i \in 1..n_tokens |->
                      IF (i - 1) \in DOMAIN E.tokens
                      THEN [bitmap |-> serialize(E.tokens[i - 1].bitmap),
                            placement_sum |-> E.tokens[i - 1].placement_sum,
                            count |-> E.tokens[i - 1].count]
                      ELSE [bitmap |-> <<>>, placement_sum |-> 0, count |-> 0]],
        tau |-> tobytes(float_arr(nec.allocated, nec.tau, n_tokens)),
        n_used |-> tobytes(int_arr(nec.allocated, nec.n_used, n_tokens)),
        scope_min_star |-> tobytes(int_arr(nec.allocated, nec.scope_min_star, n_tokens))]

\* Variant: any version from 3 on is accepted.
version_supported_at_least(version) == version >= 3

version_supported(version) == version = 3

load(file) ==
    IF file.magic # "SMEE"
    THEN [status |-> "error", error |-> "Invalid engine file: bad magic"]
    ELSE IF ~version_supported(file.version)
    THEN [status |-> "error", error |-> "Unsupported engine version"]
    ELSE LET ids == {i - 1 : i \in 1..file.num_tokens}
             tau == frombuffer(file.tau)
         IN [status |-> "ok",
             engine |->
               [placements |-> frombuffer(file.placements),
                all_players |-> deserialize(file.all_players),
                id_to_token |-> frombuffer(file.token_strs),
                tokens |-> [token_id \in {i \in ids : Len(file.stats[i + 1].bitmap) > 0} |->
                              [bitmap |-> deserialize(file.stats[token_id + 1].bitmap),
                               placement_sum |-> file.stats[token_id + 1].placement_sum,
                               count |-> file.stats[token_id + 1].count]],
                labels |-> [token_id \in {i \in ids : file.labels[i + 1] # ""} |->
                              file.labels[token_id + 1]],
                necessity |->
                  [allocated |-> TRUE,
                   ready |-> \E i \in DOMAIN tau : isfinite(tau[i]),
                   tau |-> tau,
                   n_used |-> frombuffer(file.n_used),
                   scope_min_star |-> frombuffer(file.scope_min_star)]]]

\* engine.save(save_path), the last statement of build_engine.
Save ==
    /\ phase = "precomputed"
    /\ engine_file' = save(CurrentEngine)
    /\ phase' = "saved"
    /\ UNCHANGED <<engine_vars, token_data, current_pm_id, current_placement,
                   board_items, board_unit_count, unit_rows, trait_rows, db_labels,
                   query_vars, loaded, server_vars, cluster_vars, side_vars>>

\* PUT /upload-data/engine.bin: the snapshot is replaced by one written by a
\* release of the builder whose format version is `version`.
UploadData(version) ==
    /\ phase = "saved"
    /\ loaded = NotLoaded
    /\ engine_file' = [engine_file EXCEPT !.version = version]
    /\ UNCHANGED <<engine_vars, build_vars, query_vars, loaded, server_vars, cluster_vars, side_vars>>

\* GraphEngine.load(path)
Load ==
    /\ engine_file.exists
    /\ loaded = NotLoaded
    /\ loaded' = load(engine_file)
    /\ UNCHANGED <<engine_vars, build_vars, query_vars, engine_file, server_vars, cluster_vars, side_vars>>

(***************************************************************************)
(* Server start-up (server.py lifespan) and the engine check of the        *)
(* endpoints.  The engine object of the process is the engine variables:   *)
(* build_engine runs the build in the server process, and a successful     *)
(* load replaces the object by the one read from the file.                 *)
(***************************************************************************)
\* any(t.startswith("E:") and copies >= 2 for t in ENGINE.id_to_token)
has_equipped_counts(E) ==
    \E i \in DOMAIN E.id_to_token, unit \in UnitNames :
        E.id_to_token[i] \in {"E:" \o unit \o "|" \o item \o suffix :
                                item \in ItemNameSet, suffix \in {":2", ":3"}}

\* The count-aware rebuild: build_from_db again, then the labels and the
\* cached estimates of the old engine for the tokens both engines have.
rebuild_preserving(old) ==
    LET shared(i) == HasToken(old.id_to_token, id_to_token[i])
        old_id(i) == token_to_id(old.id_to_token, id_to_token[i])
        fresh == init_necessity_cache_top4(NoNecessity, Cardinality(DOMAIN id_to_token))
        tau == [i \in DOMAIN fresh.tau |->
                  IF shared(i) THEN old.necessity.tau[old_id(i)] ELSE fresh.tau[i]]
    IN [placements |-> placements, all_players |-> all_players,
        id_to_token |-> id_to_token, tokens |-> tokens,
        labels |-> [i \in DOMAIN db_labels |->
                      IF shared(i) /\ old_id(i) \in DOMAIN old.labels
                         /\ old.labels[old_id(i)] # ""
                      THEN old.labels[old_id(i)] ELSE db_labels[i]],
        necessity |->
          [allocated |-> TRUE,
           ready |-> \E i \in DOMAIN tau : isfinite(tau[i]),
           tau |-> tau,
           n_used |-> [i \in DOMAIN fresh.n_used |->
                         IF shared(i) THEN old.necessity.n_used[old_id(i)]
                         ELSE fresh.n_used[i]],
           scope_min_star |-> [i \in DOMAIN fresh.scope_min_star |->
                         IF shared(i) THEN old.necessity.scope_min_star[old_id(i)]
                         ELSE fresh.scope_min_star[i]]]]

\* lifespan.  db_exists: DATA_DIR/smeecher.db is there; it is the database
\* the build has read, so build_engine returns the engine already built.
Lifespan(db_exists) ==
    /\ ENGINE = "unset"
    /\ db_exists => phase = "saved"
    /\ LET r == IF engine_file.exists THEN load(engine_file) ELSE NotLoaded
           upgrade == r.status = "ok" /\ db_exists /\ ~has_equipped_counts(r.engine)
           E == IF r.status = "ok"
                THEN (IF upgrade THEN rebuild_preserving(r.engine) ELSE r.engine)
                ELSE CurrentEngine
       IN /\ loaded' = r
          /\ ENGINE' = (IF r.status = "ok" \/ db_exists THEN "engine" ELSE "none")
          /\ engine_file' = (IF upgrade \/ (r.status # "ok" /\ db_exists)
                             THEN save(E) ELSE engine_file)
          /\ placements' = E.placements
          /\ max_id' = (IF r.status = "ok" \/ db_exists
                        THEN Cardinality(DOMAIN E.placements) - 1 ELSE max_id)
          /\ all_players' = E.all_players
          /\ id_to_token' = E.id_to_token
          /\ tokens' = E.tokens
          /\ labels' = E.labels
          /\ necessity' = E.necessity
    /\ response' = response
    /\ UNCHANGED <<build_vars, query_vars, cluster_vars, side_vars>>

\* self.total_matches: COUNT(*) of the player_matches rows whose ids the
\* first pass adds to all_players.
total_matches == Cardinality(all_players)

NoBase == [n |-> 0, avg_placement |-> [num |-> 0, den |-> 1]]

NoResponse ==
    [endpoint |-> "none", tokens |-> <<>>, status_code |-> 0, detail |-> "",
     base |-> NoBase]

EngineNotLoaded(endpoint) ==
    [endpoint |-> endpoint, tokens |-> <<>>, status_code |-> 503,
     detail |-> "Engine not loaded", base |-> NoBase]

\* GET /stats: ENGINE.stats() with no check of ENGINE; on None the attribute
\* lookup raises AttributeError, which the framework answers with status 500.
GetStats ==
    /\ ENGINE # "unset"
    /\ response = NoResponse
    /\ response' =
         IF ENGINE = "none"
         THEN [endpoint |-> "stats", tokens |-> <<>>, status_code |-> 500,
               detail |-> "Internal Server Error", base |-> NoBase]
         ELSE [endpoint |-> "stats", tokens |-> <<>>, status_code |-> 200, detail |-> "",
               base |-> [n |-> total_matches, avg_placement |-> NoBase.avg_placement]]
    /\ UNCHANGED <<engine_vars, build_vars, query_vars, codec_vars, ENGINE, cluster_vars, side_vars>>

\* token_list of GET /graph: each entry is a token, or a token behind "-" or
\* "!" which excludes it.
include_of(token_list) ==
    SelectSeq(token_list, LAMBDA t : ~t.negated)

exclude_of(token_list) ==
    SelectSeq(token_list, LAMBDA t : t.negated)

raw_tokens(token_list) == [i \in DOMAIN token_list |-> token_list[i].raw]

\* base of the root view (no tokens): total_matches and the constant 4.5
graph_root_base ==
    [n |-> total_matches, avg_placement |-> [num |-> 9, den |-> 2]]

graph_base(token_list) ==
    IF token_list = <<>> THEN graph_root_base
    ELSE LET base == filter_bitmap(raw_tokens(include_of(token_list)),
                                   raw_tokens(exclude_of(token_list)))
             n_base == Cardinality(base)
         IN [n |-> n_base,
             avg_placement |-> IF n_base > 0 THEN avg_placement_for_bitmap(base)
                               ELSE [num |-> 9, den |-> 2]]

\* The bitmap object /graph works on: none for the root or without an engine.
graph_base_object(token_list) ==
    IF ENGINE = "none" \/ token_list = <<>> THEN new_bitmap
    ELSE filter_bitmap_object(raw_tokens(include_of(token_list)),
                              raw_tokens(exclude_of(token_list)))

\* GET /graph, up to the base statistics of the response.
GetGraph(token_list) ==
    /\ ENGINE # "unset"
    /\ response = NoResponse
    /\ response' =
         IF ENGINE = "none" THEN EngineNotLoaded("graph")
         ELSE [endpoint |-> "graph", tokens |-> token_list, status_code |-> 200,
               detail |-> "", base |-> graph_base(token_list)]
    /\ EngineAfter(graph_base_object(token_list))
    /\ UNCHANGED <<build_vars, query_vars, codec_vars, ENGINE, cluster_vars, side_vars>>

\* The other endpoints of the query surface begin with
\* `if ENGINE is None: raise HTTPException(status_code=503, ...)`.
GuardedEndpoints ==
    {"search", "clusters", "cluster_playbook", "token_playbook",
     "unit_items", "unit_build", "item_necessity"}

EngineCheck(endpoint) ==
    /\ ENGINE = "none"
    /\ endpoint \in GuardedEndpoints
    /\ response = NoResponse
    /\ response' = EngineNotLoaded(endpoint)
    /\ UNCHANGED <<engine_vars, build_vars, query_vars, codec_vars, ENGINE, cluster_vars, side_vars>>

\* ---------------------------------------------------------------------
\* Item taxonomy (items.py).  An item name is the sequence of its characters,
\* so that prefix, suffix and substring tests are computed on the name.

startswith(s, p) == Len(s) >= Len(p) /\ SubSeq(s, 1, Len(p)) = p

endswith(s, p) == Len(s) >= Len(p) /\ SubSeq(s, Len(s) - Len(p) + 1, Len(s)) = p

\* p in s
contains(s, p) ==
    \E i \in 1..(Len(s) - Len(p) + 1) : SubSeq(s, i, i + Len(p) - 1) = p

COMPONENT_ITEMS ==
    { <<"B", "F", "S", "w", "o", "r", "d">>,
      <<"C", "h", "a", "i", "n", "V", "e", "s", "t">>,
      <<"G", "i", "a", "n", "t", "s", "B", "e", "l", "t">>,
      <<"N", "e", "e", "d", "l", "e", "s", "s", "l", "y", "L", "a", "r", "g", "e", "R", "o", "d">>,
      <<"N", "e", "g", "a", "t", "r", "o", "n", "C", "l", "o", "a", "k">>,
      <<"R", "e", "c", "u", "r", "v", "e", "B", "o", "w">>,
      <<"S", "p", "a", "r", "r", "i", "n", "g", "G", "l", "o", "v", "e", "s">>,
      <<"S", "p", "a", "t", "u", "l", "a">>,
      <<"T", "e", "a", "r", "O", "f", "T", "h", "e", "G", "o", "d", "d", "e", "s", "s">> }

str_TFT == <<"T", "F", "T">>
str_Set == <<"S", "e", "t">>
str_underscore == <<"_">>
str_Radiant == <<"R", "a", "d", "i", "a", "n", "t">>
str_Artifact_ == <<"A", "r", "t", "i", "f", "a", "c", "t", "_">>
str_Item_Ornn == <<"I", "t", "e", "m", "_", "O", "r", "n", "n">>
str_EmblemItem == <<"E", "m", "b", "l", "e", "m", "I", "t", "e", "m">>
str_TFT_Item_Emblem_ == <<"T", "F", "T", "_", "I", "t", "e", "m", "_", "E", "m", "b", "l", "e", "m", "_">>

\* Variant: the Artifact_ / Item_Ornn rule and the emblem rule tried before
\* the Radiant suffix.
get_item_type_radiant_last(item_name) ==
    IF item_name \in COMPONENT_ITEMS THEN "component"
    ELSE IF (startswith(item_name, str_TFT) \/ startswith(item_name, str_Set))
            /\ contains(item_name, str_underscore) THEN "artifact"
    ELSE IF startswith(item_name, str_Artifact_) \/ contains(item_name, str_Item_Ornn)
         THEN "artifact"
    ELSE IF endswith(item_name, str_EmblemItem)
            \/ startswith(item_name, str_TFT_Item_Emblem_) THEN "emblem"
    ELSE IF endswith(item_name, str_Radiant) THEN "radiant"
    ELSE "full"

get_item_type(item_name) ==
    IF item_name \in COMPONENT_ITEMS THEN "component"
    ELSE IF (startswith(item_name, str_TFT) \/ startswith(item_name, str_Set))
            /\ contains(item_name, str_underscore) THEN "artifact"
    ELSE IF endswith(item_name, str_Radiant) THEN "radiant"
    ELSE IF startswith(item_name, str_Artifact_) \/ contains(item_name, str_Item_Ornn)
         THEN "artifact"
    ELSE IF endswith(item_name, str_EmblemItem)
            \/ startswith(item_name, str_TFT_Item_Emblem_) THEN "emblem"
    ELSE "full"

\* A call of get_item_type.
GetItemType(item_name) ==
    /\ last_call = NoCall
    /\ last_call' = [op |-> "get_item_type",
                     item_name |-> item_name,
                     item_type |-> get_item_type(item_name)]
    /\ UNCHANGED <<engine_vars, build_vars, service_vars, cluster_vars, side_vars>>

\* ---------------------------------------------------------------------
\* Identifiability gate of the estimators (causal.py aipw_ate and the
\* cluster-adjusted estimate of get_unit_items).  The estimators themselves
\* are numeric; the model keeps the counts they compare.

max(a, b) == IF a >= b THEN a ELSE b

\* Variant: 5% of n rounded up.
five_percent_ceil(n) == (n + 19) \div 20

\* int(0.05 * n)
five_percent(n) == n \div 20

min_used(n) == max(200, five_percent(n))

gate_fails(n, n_used, n_treated_used, n_control_used) ==
    n_used < min_used(n) \/ n_treated_used < 50 \/ n_control_used < 50

\* aipw_ate on n rows, n_treated of them treated, when trimming keeps n_used
\* rows, n_treated_used of them treated.
aipw_ate(n, n_treated, n_used, n_treated_used) ==
    LET n_control == n - n_treated
        n_control_used == n_used - n_treated_used
    IN IF n = 0 THEN [raised |-> "ValueError", message |-> "Empty sample"]
       ELSE IF n_treated = 0 \/ n_control = 0
            THEN [raised |-> "ValueError",
                  message |-> "Need both treated and control samples"]
       ELSE IF gate_fails(n, n_used, n_treated_used, n_control_used)
            THEN [raised |-> "OverlapError",
                  message |-> "Insufficient propensity overlap after trimming; effect is not reliably identifiable in this context.",
                  n |-> n, n_used |-> n_used,
                  n_treated_used |-> n_treated_used,
                  n_control_used |-> n_control_used]
       ELSE [raised |-> "none", n |-> n, n_treated |-> n_treated,
             n_control |-> n_control, n_used |-> n_used]

\* The trimmings a sample allows: the kept rows are rows of the sample.
Trimmings(n, n_treated, n_used, n_treated_used) ==
    /\ n_treated <= n
    /\ n_used <= n
    /\ n_treated_used <= n_treated
    /\ n_treated_used <= n_used
    /\ n_used - n_treated_used <= n - n_treated

AipwAte(n, n_treated, n_used, n_treated_used) ==
    /\ last_call = NoCall
    /\ Trimmings(n, n_treated, n_used, n_treated_used)
    /\ last_call' = [op |-> "aipw_ate", n |-> n, n_treated |-> n_treated,
                     n_used |-> n_used, n_treated_used |-> n_treated_used,
                     n_control_used |-> n_used - n_treated_used,
                     estimate |-> aipw_ate(n, n_treated, n_used, n_treated_used).raised = "none",
                     result |-> aipw_ate(n, n_treated, n_used, n_treated_used)]
    /\ UNCHANGED <<engine_vars, build_vars, service_vars, cluster_vars, side_vars>>

\* One row of the cluster-adjusted estimate of get_unit_items (min_sample at
\* its default): necessity None below the group minimum or when the gate
\* fails, an estimate otherwise.
cluster_adjusted_row(n_total, n_treated, n_used, n_treated_used) ==
    LET n_control == n_total - n_treated
        min_group == max(100, 30)
    IN IF n_treated < min_group \/ n_control < min_group
       THEN [necessity |-> "None", gate |-> FALSE]
       ELSE IF gate_fails(n_total, n_used, n_treated_used, n_used - n_treated_used)
            THEN [necessity |-> "None", gate |-> TRUE]
       ELSE [necessity |-> "cluster_adjusted", gate |-> TRUE]

ClusterAdjustedRow(n_total, n_treated, n_used, n_treated_used) ==
    /\ last_call = NoCall
    /\ Trimmings(n_total, n_treated, n_used, n_treated_used)
    /\ last_call' = [op |-> "cluster_adjusted", n |-> n_total, n_treated |-> n_treated,
                     n_used |-> n_used, n_treated_used |-> n_treated_used,
                     n_control_used |-> n_used - n_treated_used,
                     estimate |-> cluster_adjusted_row(n_total, n_treated, n_used, n_treated_used).necessity # "None",
                     result |-> cluster_adjusted_row(n_total, n_treated, n_used, n_treated_used)]
    /\ UNCHANGED <<engine_vars, build_vars, service_vars, cluster_vars, side_vars>>

\* ---------------------------------------------------------------------
\* Necessity endpoints (server.py): /unit-items, /item-units and
\* /item-necessity.  The boards of the model stand for a database of
\* production size: which bitmaps are empty is read off the engine, while
\* the sizes the handlers compare with their sample thresholds, and what the
\* numeric estimators return, come with the request as `sample`.

\* t.startswith(f"U:{unit}:") for a filter token t
is_star_token(unit, t) == \E s \in 1..6 : t = "U:" \o unit \o ":" \o ToString(s)

has_star_filter(unit, include_filters, exclude_filters) ==
    \/ \E i \in DOMAIN include_filters : is_star_token(unit, include_filters[i])
    \/ \E i \in DOMAIN exclude_filters : is_star_token(unit, exclude_filters[i])

\* union of the U:<unit>:s bitmaps, s in unit_stars_min..6
stars_bm(unit, unit_stars_min) ==
    UNION {bitmap_of("U:" \o unit \o ":" \o ToString(s)) :
             s \in {k \in unit_stars_min..6 : KnownToken("U:" \o unit \o ":" \o ToString(k))}}

NotFound(endpoint, detail) ==
    [endpoint |-> endpoint, tokens |-> <<>>, status_code |-> 404,
     detail |-> detail, base |-> NoBase]

Ok(endpoint, body) ==
    [endpoint |-> endpoint, tokens |-> <<>>, status_code |-> 200, detail |-> "",
     base |-> NoBase, body |-> body]

\* The necessity of one row read from the engine cache; "None" when the cache
\* has nothing to serve for it.
cached_necessity(eq_token, scope_wanted, scope_shown) ==
    IF ~HasToken(id_to_token, eq_token)
    THEN [source |-> "None"]
    ELSE LET token_id == token_to_id(id_to_token, eq_token)
             stored_scope == necessity.scope_min_star[token_id]
         IN IF stored_scope # 0 /\ scope_wanted # 0 /\ stored_scope # scope_wanted
            THEN [source |-> "None"]
            ELSE IF ~isfinite(necessity.tau[token_id])
            THEN [source |-> "None"]
            ELSE [source |-> "cache", cached |-> TRUE,
                  tau |-> necessity.tau[token_id],
                  n_used |-> necessity.n_used[token_id],
                  stored_scope |-> stored_scope,
                  scope_min_star |-> IF stored_scope # 0 THEN stored_scope
                                     ELSE scope_shown]

\* The equipped tokens of a unit that count one copy, and the items a filter
\* already puts on the unit.
single_copy_tokens(unit) ==
    {t \in {"E:" \o unit \o "|" \o item : item \in ItemNameSet} : HasToken(id_to_token, t)}

existing_items(unit, include_filters) ==
    {item \in ItemNameSet :
        \E i \in DOMAIN include_filters, suffix \in {"", ":2", ":3"} :
            include_filters[i] = "E:" \o unit \o "|" \o item \o suffix}

item_of_equipped(unit, eq_token) ==
    CHOOSE item \in ItemNameSet : eq_token = "E:" \o unit \o "|" \o item

\* get_unit_items in sort mode "necessity" with min_sample = 1 and no item
\* type or prefix restriction.  req.dominated: the sample has at least 2000
\* two-star boards and they are at least 70% of it.
get_unit_items(req, sample) ==
    LET unit == req.unit
        unit_token == "U:" \o unit
        first_base == filter_bitmap(<<unit_token>> \o req.include_filters, req.exclude_filters)
        filtered == req.include_filters # <<>> \/ req.exclude_filters # <<>>
        star2plus == stars_bm(unit, 2)
        auto == /\ ~has_star_filter(unit, req.include_filters, req.exclude_filters)
                /\ star2plus # {}
                /\ req.dominated
        base_bitmap == IF auto THEN first_base \cap star2plus ELSE first_base
        scope_min_star == IF auto THEN 2 ELSE 1
        outcome == IF req.necessity_outcome \in {"top_4", "topfour"} THEN "top4"
                   ELSE req.necessity_outcome
        use_cache == necessity.ready /\ ~filtered /\ outcome = "top4"
        rows == {t \in single_copy_tokens(unit) :
                   /\ item_of_equipped(unit, t) \notin existing_items(unit, req.include_filters)
                   /\ KnownToken(t)
                   /\ base_bitmap \cap bitmap_of(t) # {}}
        fast(t) ==
            LET row == cluster_adjusted_row(sample.n, sample.n_treated,
                                            sample.n_used, sample.n_treated_used)
            IN IF row.necessity = "None" THEN [source |-> "None"]
               ELSE [source |-> "cluster_adjusted", cached |-> FALSE,
                     scope_min_star |-> scope_min_star]
    IN IF ENGINE = "none" THEN EngineNotLoaded("unit_items")
       ELSE IF ~HasToken(id_to_token, unit_token) THEN NotFound("unit_items", "Unit not found")
       ELSE IF first_base = {} \/ base_bitmap = {}
            THEN Ok("unit_items", [request |-> req, scope |-> 0, items |-> {}])
       ELSE Ok("unit_items",
               [request |-> req,
                scope |-> scope_min_star,
                items |-> {[token |-> t,
                            necessity |-> IF use_cache
                                          THEN cached_necessity(t, scope_min_star, scope_min_star)
                                          ELSE fast(t)] : t \in rows}])

\* base_bitmap of get_unit_items: the object filter_bitmap returned, after
\* `base_bitmap &= star2plus_bm` when the request is auto-scoped; star2plus_bm
\* is a new bitmap and unit_all_bm is only read.
unit_items_base_object(req) ==
    LET unit_token == "U:" \o req.unit
        first == filter_bitmap_object(<<unit_token>> \o req.include_filters,
                                      req.exclude_filters)
        star2plus == stars_bm(req.unit, 2)
        auto == /\ ~has_star_filter(req.unit, req.include_filters, req.exclude_filters)
                /\ star2plus # {}
                /\ req.dominated
    IN IF ENGINE = "none" \/ ~HasToken(id_to_token, unit_token) THEN new_bitmap
       ELSE IF first.bits # {} /\ auto THEN inplace(first, first.bits \cap star2plus)
       ELSE first

GetUnitItems(req, sample) ==
    /\ ENGINE # "unset"
    /\ response = NoResponse
    /\ Trimmings(sample.n, sample.n_treated, sample.n_used, sample.n_treated_used)
    /\ response' = get_unit_items(req, sample)
    /\ EngineAfter(unit_items_base_object(req))
    /\ UNCHANGED <<build_vars, query_vars, codec_vars, ENGINE, cluster_vars, side_vars>>

\* get_item_units in sort mode "necessity" with min_sample = 1.
get_item_units(req) ==
    LET item_token == "I:" \o req.item
        base_bitmap == filter_bitmap(<<item_token>> \o req.include_filters, req.exclude_filters)
        use_cache == necessity.ready
        rows == {t \in {"E:" \o unit \o "|" \o req.item : unit \in UnitNames} :
                   /\ \E unit \in UnitNames :
                        t = "E:" \o unit \o "|" \o req.item /\ HasToken(id_to_token, "U:" \o unit)
                   /\ KnownToken(t)
                   /\ base_bitmap \cap bitmap_of(t) # {}}
    IN IF ENGINE = "none" THEN EngineNotLoaded("item_units")
       ELSE IF ~HasToken(id_to_token, item_token) THEN NotFound("item_units", "Item not found")
       ELSE IF base_bitmap = {}
            THEN Ok("item_units", [request |-> req, scope |-> 0, items |-> {}])
       ELSE Ok("item_units",
               [request |-> req,
                scope |-> 0,
                items |-> {[token |-> t,
                            necessity |-> IF use_cache THEN cached_necessity(t, 0, 1)
                                          ELSE [source |-> "None"]] : t \in rows}])

\* base_bitmap of get_item_units: the object filter_bitmap returned.
item_units_base_object(req) ==
    IF ENGINE = "none" \/ ~HasToken(id_to_token, "I:" \o req.item) THEN new_bitmap
    ELSE filter_bitmap_object(<<"I:" \o req.item>> \o req.include_filters,
                              req.exclude_filters)

GetItemUnits(req) ==
    /\ ENGINE # "unset"
    /\ response = NoResponse
    /\ response' = get_item_units(req)
    /\ EngineAfter(item_units_base_object(req))
    /\ UNCHANGED <<build_vars, query_vars, codec_vars, ENGINE, cluster_vars, side_vars>>

\* "effect": None in a response
NullEffect == [method |-> "null", outcome |-> "", tau |-> ""]

\* The scope of an /item-necessity request: the star minimum asked for,
\* raised to 2 when the sample is dominated by two-star boards.
item_necessity_scope(req) ==
    LET auto == /\ req.auto_unit_stars_min
                /\ ~has_star_filter(req.unit, req.include_filters, req.exclude_filters)
                /\ req.unit_stars_min = 1
                /\ stars_bm(req.unit, 2) # {}
                /\ req.dominated
    IN [unit_stars_min |-> IF auto THEN 2 ELSE req.unit_stars_min, auto |-> auto]

item_necessity_base(req) ==
    LET first_base == filter_bitmap(<<"U:" \o req.unit>> \o req.include_filters,
                                    req.exclude_filters)
        unit_stars_min == item_necessity_scope(req).unit_stars_min
        stars == IF unit_stars_min >= 2 THEN stars_bm(req.unit, unit_stars_min) ELSE {}
    IN IF stars # {} THEN first_base \cap stars ELSE first_base

\* Variant: only the treated group is checked.
insufficient_sample_treated_only(n_treated, n_control) == n_treated < 50

insufficient_sample(n_treated, n_control) == n_treated < 50 \/ n_control < 50

\* get_item_necessity.  req.default_params: n_splits, max_rows,
\* min_token_freq, overlap_min and overlap_max at their defaults.
get_item_necessity(req, sample) ==
    LET unit == req.unit
        unit_token == "U:" \o unit
        eq_token == "E:" \o unit \o "|" \o req.item
        scope == item_necessity_scope(req)
        unit_stars_min == scope.unit_stars_min
        base_bitmap == item_necessity_base(req)
        treatment == [token |-> eq_token, n_treated |-> sample.n_treated,
                      n_control |-> sample.n - sample.n_treated]
        cache_eligible ==
            /\ req.outcome \in {"top4", "top_4", "topfour"}
            /\ req.include_filters = <<>>
            /\ req.exclude_filters = <<>>
            /\ ~req.by_cluster
            /\ necessity.ready
            /\ req.default_params
        tok_id == token_to_id(id_to_token, eq_token)
        stored_scope == necessity.scope_min_star[tok_id]
        est == aipw_ate(sample.n, sample.n_treated, sample.n_used, sample.n_treated_used)
    IN IF ENGINE = "none" THEN EngineNotLoaded("item_necessity")
       ELSE IF ~HasToken(id_to_token, unit_token)
            THEN NotFound("item_necessity", "Unit not found")
       ELSE IF ~HasToken(id_to_token, eq_token)
            THEN NotFound("item_necessity", "No data for token")
       ELSE IF base_bitmap = {}
            THEN Ok("item_necessity",
                    [request |-> req, scope |-> scope, base |-> [n |-> 0],
                     effect |-> NullEffect, cached |-> FALSE,
                     warning |-> "No matches for the current filters.",
                     warnings |-> <<>>])
       ELSE IF insufficient_sample(sample.n_treated, sample.n - sample.n_treated)
            THEN Ok("item_necessity",
                    [request |-> req, scope |-> scope, base |-> [n |-> sample.n],
                     treatment |-> treatment,
                     effect |-> NullEffect, cached |-> FALSE,
                     warning |-> "Insufficient overlap/sample size for a reliable causal estimate.",
                     warnings |-> <<>>])
       ELSE IF /\ cache_eligible
               /\ stored_scope # 0 /\ stored_scope = unit_stars_min
               /\ isfinite(necessity.tau[tok_id])
            THEN Ok("item_necessity",
                    [request |-> req, scope |-> scope, base |-> [n |-> sample.n],
                     treatment |-> treatment,
                     effect |-> [method |-> "aipw", outcome |-> "top4",
                                 tau |-> necessity.tau[tok_id]],
                     cached |-> TRUE, stored_scope |-> stored_scope,
                     warning |-> "None", warnings |-> <<>>])
       ELSE IF est.raised = "OverlapError"
            THEN Ok("item_necessity",
                    [request |-> req, scope |-> scope, base |-> [n |-> sample.n],
                     treatment |-> treatment,
                     effect |-> NullEffect, cached |-> FALSE,
                     overlap |-> [n_used |-> est.n_used,
                                  n_treated_used |-> est.n_treated_used,
                                  n_control_used |-> est.n_control_used],
                     warning |-> est.message,
                     warnings |-> <<"Low overlap: effect is not reliably identifiable in this context.">>])
       ELSE IF est.raised = "ValueError"
            THEN [endpoint |-> "item_necessity", tokens |-> <<>>, status_code |-> 500,
                  detail |-> "Internal Server Error", base |-> NoBase]
       ELSE Ok("item_necessity",
               [request |-> req, scope |-> scope, base |-> [n |-> sample.n],
                treatment |-> treatment,
                effect |-> [method |-> "aipw", outcome |-> req.outcome, tau |-> "estimated"],
                overlap |-> [n_used |-> est.n_used],
                cached |-> FALSE, warning |-> "None", warnings |-> <<>>])

\* The sample of a request agrees with the engine on which groups are empty.
SampleOf(req, sample) ==
    LET eq_token == "E:" \o req.unit \o "|" \o req.item
        base == item_necessity_base(req)
        treated == IF KnownToken(eq_token) THEN base \cap bitmap_of(eq_token) ELSE {}
    IN /\ Trimmings(sample.n, sample.n_treated, sample.n_used, sample.n_treated_used)
       /\ sample.n = 0 <=> base = {}
       /\ sample.n_treated = 0 <=> treated = {}
       /\ sample.n = sample.n_treated <=> base = treated

\* base_bitmap of get_item_necessity: the object filter_bitmap returned, after
\* `base_bitmap &= stars_bm` for a scope of two stars or more; star2plus_bm
\* and stars_bm are new bitmaps.
item_necessity_base_object(req) ==
    IF \/ ENGINE = "none"
       \/ ~HasToken(id_to_token, "U:" \o req.unit)
       \/ ~HasToken(id_to_token, "E:" \o req.unit \o "|" \o req.item)
    THEN new_bitmap
    ELSE inplace(filter_bitmap_object(<<"U:" \o req.unit>> \o req.include_filters,
                                      req.exclude_filters),
                 item_necessity_base(req))

GetItemNecessity(req, sample) ==
    /\ ENGINE # "unset"
    /\ response = NoResponse
    /\ SampleOf(req, sample)
    /\ response' = get_item_necessity(req, sample)
    /\ EngineAfter(item_necessity_base_object(req))
    /\ UNCHANGED <<build_vars, query_vars, codec_vars, ENGINE, cluster_vars, side_vars>>

\* ---------------------------------------------------------------------
\* Clustering (clustering.py compute_clusters, from the base set to the
\* result).  The base rows are 1..n_base; `km_labels` is what
\* MiniBatchKMeans.fit_predict returns: a cluster index in 0..n_clusters-1
\* for every row; n_features is the width of the feature matrix.

\* np.bincount(km_labels, minlength=n_clusters)
cluster_sizes(km_labels, n_clusters) ==
    [c \in 0..(n_clusters - 1) |-> Cardinality({r \in DOMAIN km_labels : km_labels[r] = c})]

\* Variant: the size test is lost.
cluster_kept_always(size, params) == TRUE

\* `if size < params.min_cluster_size: continue`
cluster_kept(size, params) == ~(size < params.min_cluster_size)

too_small_to_cluster(n_base, params) ==
    n_base < max(params.min_cluster_size * 2, params.n_clusters * 3)

\* The result: its warning, its clusters (cluster_id and size) and the
\* membership bitmaps handed to the members cache.
cluster_result(n_base, params, n_features, km_labels) ==
    IF n_base = 0
    THEN [n_base |-> 0, warning |-> "No matches for the current filters.",
          clusters |-> {}, members |-> <<>>]
    ELSE IF too_small_to_cluster(n_base, params)
    THEN [n_base |-> n_base, warning |-> "Sample too small to cluster reliably.",
          clusters |-> {}, members |-> <<>>]
    ELSE IF n_features < 2
    THEN [n_base |-> n_base, warning |-> "Not enough features in this sample.",
          clusters |-> {}, members |-> <<>>]
    ELSE LET sizes == cluster_sizes(km_labels, params.n_clusters)
             kept == {c \in 0..(params.n_clusters - 1) : cluster_kept(sizes[c], params)}
         IN [n_base |-> n_base, warning |-> "",
             clusters |-> {[cluster_id |-> c, size |-> sizes[c]] : c \in kept},
             members |-> [c \in kept |-> {r \in DOMAIN km_labels : km_labels[r] = c}]]

ClusterBase(n_base, params, n_features, km_labels) ==
    /\ last_call = NoCall
    /\ km_labels \in [1..n_base -> 0..(params.n_clusters - 1)]
    /\ last_call' = [op |-> "compute_clusters", n_base |-> n_base, params |-> params,
                     result |-> cluster_result(n_base, params, n_features, km_labels)]
    /\ UNCHANGED <<engine_vars, build_vars, service_vars, cluster_vars, side_vars>>

\* ---------------------------------------------------------------------
\* Cluster caches (clustering.py).  An OrderedDict is the sequence of its
\* entries, oldest first.  The four cache functions run their body under
\* _CACHE_LOCK; a thread waits for the lock, runs the body while it holds it,
\* and gives it back when the body ends.

CACHE_MAX == 24

CACHE_TTL_S == 10 * 60

CacheThreads == {1, 2}

\* `members`: what compute_cluster_playbook holds in `members` once the
\* lookups are over; `cluster_id`: the cluster it was asked for.
IdleThread == [pc |-> "idle", fn |-> "none", key |-> 0, now |-> 0, ret |-> "none",
               cluster_id |-> 0, members |-> {}]

has_key(od, key) == \E i \in DOMAIN od : od[i].key = key

entry_of(od, key) == od[CHOOSE i \in DOMAIN od : od[i].key = key]

\* od.pop(key, None)
pop(od, key) == SelectSeq(od, LAMBDA e : e.key # key)

\* od.move_to_end(key, last=True)
move_to_end(od, key) ==
    IF has_key(od, key) THEN Append(pop(od, key), entry_of(od, key)) ELSE od

\* od[key] = entry: a new key goes last, a known key keeps its place
set_item(od, key, entry) ==
    IF has_key(od, key)
    THEN [i \in DOMAIN od |-> IF od[i].key = key THEN entry ELSE od[i]]
    ELSE Append(od, entry)

\* Variant: the expired entry leaves the looked-up cache only.
expire_one_side(own, other, key) == [own |-> pop(own, key), other |-> other]

\* `_CACHE.pop(key, None); _MEMBERS_CACHE.pop(key, None)` of an expired entry
expire(own, other, key) == [own |-> pop(own, key), other |-> pop(other, key)]

\* Variant: an entry is returned whatever its age.
cache_lookup_no_ttl(own, other, key, now) ==
    IF ~has_key(own, key)
    THEN [own |-> own, other |-> other, hit |-> FALSE, value |-> {}]
    ELSE [own |-> move_to_end(own, key), other |-> move_to_end(other, key),
          hit |-> TRUE, value |-> entry_of(own, key).value]

\* The body of _cache_get and of _members_get on the looked-up cache `own`
\* and the paired cache `other`, with `now` read before the lock was taken.
cache_lookup(own, other, key, now) ==
    IF ~has_key(own, key)
    THEN [own |-> own, other |-> other, hit |-> FALSE, value |-> {}]
    ELSE IF (now - entry_of(own, key).ts) > CACHE_TTL_S
    THEN [own |-> expire(own, other, key).own,
          other |-> expire(own, other, key).other, hit |-> FALSE, value |-> {}]
    ELSE [own |-> move_to_end(own, key), other |-> move_to_end(other, key),
          hit |-> TRUE, value |-> entry_of(own, key).value]

\* `while len(od) > _CACHE_MAX: evicted_key, _ = od.popitem(last=False);
\* other.pop(evicted_key, None)`
RECURSIVE evict(_, _)
evict(own, other) ==
    IF Len(own) > CACHE_MAX
    THEN evict(Tail(own), pop(other, Head(own).key))
    ELSE [own |-> own, other |-> other]

\* Variant: the store never evicts.
cache_store_unbounded(own, other, key, value, ts) ==
    [own |-> move_to_end(set_item(own, key, [key |-> key, ts |-> ts, value |-> value]), key),
     other |-> other]

\* The body of _cache_set and of _members_set.
cache_store(own, other, key, value, ts) ==
    evict(move_to_end(set_item(own, key, [key |-> key, ts |-> ts, value |-> value]), key),
          other)

\* The clusters compute_clusters finds for a key: the computation is
\* deterministic in the engine, the tokens and the parameters.
clusters_of(key) == IF key % 2 = 0 THEN {0} ELSE {}

\* ---- threads ----

At(t, pc) == threads[t].pc = pc

Goto(t, pc) == [threads EXCEPT ![t].pc = pc]

\* A thread enters _cache_get or _members_get: `now = time.time()`, then it
\* waits for the lock.
EnterLookup(t, pc, thr) == [threads EXCEPT ![t] = [thr EXCEPT !.pc = pc, !.now = clock]]

\* The end of a compute_clusters call: back to the caller.
ReturnFrom(t) ==
    IF threads[t].ret = "none" THEN [threads EXCEPT ![t] = IdleThread]
    ELSE EnterLookup(t, threads[t].ret, [threads[t] EXCEPT !.ret = "none"])

\* GET /clusters: compute_clusters starts with _cache_get(key).
StartClusters(t, key) ==
    /\ At(t, "idle")
    /\ threads' = EnterLookup(t, "cc_get_wait",
                              [IdleThread EXCEPT !.fn = "compute_clusters", !.key = key])
    /\ UNCHANGED <<engine_vars, build_vars, query_vars, service_vars,
                   CACHE, MEMBERS_CACHE, CACHE_LOCK, clock, side_vars>>

\* GET /cluster-playbook: compute_cluster_playbook starts with _cache_get(key).
StartPlaybook(t, key, cluster_id) ==
    /\ At(t, "idle")
    /\ threads' = EnterLookup(t, "pb_get_wait",
                              [IdleThread EXCEPT !.fn = "compute_cluster_playbook",
                                                 !.key = key, !.cluster_id = cluster_id])
    /\ UNCHANGED <<engine_vars, build_vars, query_vars, service_vars,
                   CACHE, MEMBERS_CACHE, CACHE_LOCK, clock, side_vars>>

WaitPcs == {"cc_get_wait", "cc_set_wait", "cc_mset_wait",
            "pb_get_wait", "pb_mget_wait", "pb_mget2_wait"}

body_of(pc) ==
    CASE pc = "cc_get_wait" -> "cc_get_body"
      [] pc = "cc_set_wait" -> "cc_set_body"
      [] pc = "cc_mset_wait" -> "cc_mset_body"
      [] pc = "pb_get_wait" -> "pb_get_body"
      [] pc = "pb_mget_wait" -> "pb_mget_body"
      [] pc = "pb_mget2_wait" -> "pb_mget2_body"

\* `with _CACHE_LOCK:` entered
Acquire(t) ==
    /\ threads[t].pc \in WaitPcs
    /\ CACHE_LOCK = 0
    /\ CACHE_LOCK' = t
    /\ threads' = Goto(t, body_of(threads[t].pc))
    /\ UNCHANGED <<engine_vars, build_vars, query_vars, service_vars,
                   CACHE, MEMBERS_CACHE, clock, side_vars>>

\* Variant: the lock is still held when a miss goes on to the computation.
ClustersCacheGet_keeps_lock(t) ==
    /\ At(t, "cc_get_body")
    /\ CACHE_LOCK = t
    /\ LET r == cache_lookup(CACHE, MEMBERS_CACHE, threads[t].key, threads[t].now)
       IN /\ CACHE' = r.own
          /\ MEMBERS_CACHE' = r.other
          /\ threads' = IF ~r.hit THEN Goto(t, "cc_compute") ELSE ReturnFrom(t)
          /\ CACHE_LOCK' = IF ~r.hit THEN t ELSE 0
    /\ UNCHANGED <<engine_vars, build_vars, query_vars, service_vars, clock, side_vars>>

\* _cache_get inside compute_clusters: a hit is returned, a miss goes on to
\* the computation.
ClustersCacheGet(t) ==
    /\ At(t, "cc_get_body")
    /\ CACHE_LOCK = t
    /\ LET r == cache_lookup(CACHE, MEMBERS_CACHE, threads[t].key, threads[t].now)
       IN /\ CACHE' = r.own
          /\ MEMBERS_CACHE' = r.other
          /\ threads' = IF ~r.hit THEN Goto(t, "cc_compute") ELSE ReturnFrom(t)
    /\ CACHE_LOCK' = 0
    /\ UNCHANGED <<engine_vars, build_vars, query_vars, service_vars, clock, side_vars>>

\* filter, features and k-means, outside the lock
ClustersCompute(t) ==
    /\ At(t, "cc_compute")
    /\ threads' = Goto(t, "cc_set_wait")
    /\ UNCHANGED <<engine_vars, build_vars, query_vars, service_vars,
                   CACHE, MEMBERS_CACHE, CACHE_LOCK, clock, side_vars>>

\* _cache_set(key, result)
ClustersCacheSet(t) ==
    /\ At(t, "cc_set_body")
    /\ CACHE_LOCK = t
    /\ LET r == cache_store(CACHE, MEMBERS_CACHE, threads[t].key,
                            clusters_of(threads[t].key), clock)
       IN /\ CACHE' = r.own
          /\ MEMBERS_CACHE' = r.other
    /\ threads' = Goto(t, "cc_mset_wait")
    /\ CACHE_LOCK' = 0
    /\ UNCHANGED <<engine_vars, build_vars, query_vars, service_vars, clock, side_vars>>

\* _members_set(key, members_by_cluster_id), then compute_clusters returns
ClustersMembersSet(t) ==
    /\ At(t, "cc_mset_body")
    /\ CACHE_LOCK = t
    /\ LET r == cache_store(MEMBERS_CACHE, CACHE, threads[t].key,
                            clusters_of(threads[t].key), clock)
       IN /\ MEMBERS_CACHE' = r.own
          /\ CACHE' = r.other
    /\ threads' = ReturnFrom(t)
    /\ CACHE_LOCK' = 0
    /\ UNCHANGED <<engine_vars, build_vars, query_vars, service_vars, clock, side_vars>>

\* _cache_get inside compute_cluster_playbook: on a miss compute_clusters is
\* called, and _members_get follows.
PlaybookCacheGet(t) ==
    /\ At(t, "pb_get_body")
    /\ CACHE_LOCK = t
    /\ LET r == cache_lookup(CACHE, MEMBERS_CACHE, threads[t].key, threads[t].now)
       IN /\ CACHE' = r.own
          /\ MEMBERS_CACHE' = r.other
          /\ threads' = IF ~r.hit
                        THEN EnterLookup(t, "cc_get_wait",
                                         [threads[t] EXCEPT !.ret = "pb_mget_wait"])
                        ELSE EnterLookup(t, "pb_mget_wait", threads[t])
    /\ CACHE_LOCK' = 0
    /\ UNCHANGED <<engine_vars, build_vars, query_vars, service_vars, clock, side_vars>>

\* _members_get inside compute_cluster_playbook: on None compute_clusters is
\* called and _members_get runs once more.
PlaybookMembersGet(t) ==
    /\ At(t, "pb_mget_body")
    /\ CACHE_LOCK = t
    /\ LET r == cache_lookup(MEMBERS_CACHE, CACHE, threads[t].key, threads[t].now)
       IN /\ MEMBERS_CACHE' = r.own
          /\ CACHE' = r.other
          /\ threads' = IF ~r.hit
                        THEN EnterLookup(t, "cc_get_wait",
                                         [threads[t] EXCEPT !.ret = "pb_mget2_wait"])
                        ELSE [threads EXCEPT ![t].pc = "pb_answer",
                                             ![t].members = r.value]
    /\ CACHE_LOCK' = 0
    /\ UNCHANGED <<engine_vars, build_vars, query_vars, service_vars, clock, side_vars>>

\* `members = _members_get(key) or {}`, then the playbook is answered
PlaybookMembersGetAgain(t) ==
    /\ At(t, "pb_mget2_body")
    /\ CACHE_LOCK = t
    /\ LET r == cache_lookup(MEMBERS_CACHE, CACHE, threads[t].key, threads[t].now)
       IN /\ MEMBERS_CACHE' = r.own
          /\ CACHE' = r.other
          /\ threads' = [threads EXCEPT ![t].pc = "pb_answer",
                                        ![t].members = IF r.hit THEN r.value ELSE {}]
    /\ CACHE_LOCK' = 0
    /\ UNCHANGED <<engine_vars, build_vars, query_vars, service_vars, clock, side_vars>>

\* The answer of compute_cluster_playbook for the cluster result of `key`
\* and the `members` it holds, up to the warning.
playbook_answer(key, cluster_id, members) ==
    IF cluster_id \notin clusters_of(key)
    THEN [warning |-> "Cluster not found (did you change filters or parameters?)."]
    ELSE IF cluster_id \notin members
    THEN [warning |-> "Cluster membership unavailable (cache expired). Re-run clustering and try again."]
    ELSE [warning |-> ""]

\* compute_cluster_playbook returns
PlaybookAnswer(t) ==
    /\ At(t, "pb_answer")
    /\ threads' = [threads EXCEPT ![t] = IdleThread]
    /\ UNCHANGED <<engine_vars, build_vars, query_vars, service_vars,
                   CACHE, MEMBERS_CACHE, CACHE_LOCK, clock, side_vars>>

\* Time passes.
Tick(seconds) ==
    /\ clock' = clock + seconds
    /\ UNCHANGED <<engine_vars, build_vars, query_vars, service_vars,
                   CACHE, MEMBERS_CACHE, CACHE_LOCK, threads, side_vars>>

\* ---------------------------------------------------------------------
\* Board-strength proxies of the AIPW design matrix (engine.py first pass
\* and precompute_necessity_cache_top4, server.py get_item_necessity).  A
\* board is the sequence of its unit rows, each a unit name and an items list.

\* The characters of a clean item name, as get_item_type reads them.
item_name_chars(item_name) ==
    CASE item_name = "BFSword" -> <<"B", "F", "S", "w", "o", "r", "d">>
      [] item_name = "I" -> <<"I">>
      [] item_name = "J" -> <<"J">>
      [] OTHER -> <<"E", "m", "p", "t", "y", "B", "a", "g">>

\* The items of a unit row the first pass counts: cleaned, EmptyBag skipped.
counted_items(items) ==
    SelectSeq([i \in DOMAIN items |-> clean_item_name(items[i])],
              LAMBDA item_name : item_name # "EmptyBag")

is_component_item(item_name) == get_item_type(item_name_chars(item_name)) = "component"

\* board_item_count, board_component_count and board_completed_count at
\* flush_board: one per counted item of every unit row of the board.
RECURSIVE board_counts(_)
board_counts(rows) ==
    IF rows = <<>>
    THEN [item_count |-> 0, component_count |-> 0, completed_item_count |-> 0]
    ELSE LET rest == board_counts(Tail(rows))
             names == counted_items(Head(rows).items)
             components == Cardinality({i \in DOMAIN names : is_component_item(names[i])})
         IN [item_count |-> rest.item_count + Len(names),
             component_count |-> rest.component_count + components,
             completed_item_count |->
                 rest.completed_item_count + (Len(names) - components)]

\* The equipped tokens whose bitmap holds the board.
board_equipped_tokens(rows) ==
    UNION {UNION {Range(equipped_tokens(rows[r].unit_name, c.name, c.n)) :
                    c \in Range(item_counts(rows[r].items))} :
             r \in DOMAIN rows}

ProxyItemNames == {"I", "J", "BFSword"}

equipped_token_string(p) ==
    "E:" \o p.unit \o "|" \o p.item
    \o (IF p.copies = 1 THEN "" ELSE ":" \o ToString(p.copies))

\* parse_token of an equipped token: unit, item and copies (1 without a
\* `:n` suffix with n >= 2).
parse_token(token) ==
    CHOOSE p \in [unit : UnitNames, item : ProxyItemNames, copies : 1..3] :
        equipped_token_string(p) = token

\* unit_item_count, unit_component_count and unit_completed_count of a row:
\* one per equipped token of `toks`.
unit_counts(toks) ==
    LET components == Cardinality({t \in toks : is_component_item(parse_token(t).item)})
    IN [item_count |-> Cardinality(toks),
        component_count |-> components,
        completed_item_count |-> Cardinality(toks) - components]

\* precompute_necessity_cache_top4: every token with the prefix E:<unit>|
precompute_unit_tokens(rows, unit) ==
    {t \in board_equipped_tokens(rows) : parse_token(t).unit = unit}

\* get_item_necessity: the tokens with the prefix whose copies are 1
on_demand_unit_tokens(rows, unit) ==
    {t \in board_equipped_tokens(rows) :
        parse_token(t).unit = unit /\ parse_token(t).copies = 1}

\* np.clip(x, 0.0, None)
clip_at_zero(x) == IF x < 0 THEN 0 ELSE x

\* other_item_count, other_component_count, other_completed_count
rest_of_board(total, unit_count) ==
    [item_count |-> clip_at_zero(total.item_count - unit_count.item_count),
     component_count |-> clip_at_zero(total.component_count - unit_count.component_count),
     completed_item_count |->
         clip_at_zero(total.completed_item_count - unit_count.completed_item_count)]

\* The proxies of one base row (a board holding `unit`) in both computations.
BoardStrength(rows, unit) ==
    /\ last_call = NoCall
    /\ \E r \in DOMAIN rows : rows[r].unit_name = unit
    /\ last_call' = [op |-> "board_strength", rows |-> rows, unit |-> unit,
                     total |-> board_counts(rows),
                     precompute |->
                         rest_of_board(board_counts(rows),
                                       unit_counts(precompute_unit_tokens(rows, unit))),
                     on_demand |->
                         rest_of_board(board_counts(rows),
                                       unit_counts(on_demand_unit_tokens(rows, unit)))]
    /\ UNCHANGED <<engine_vars, build_vars, service_vars, cluster_vars, side_vars>>

(***************************************************************************)
(* The voice rate limiter of POST /realtime-session (server.py).  Times    *)
(* are whole seconds.  The handler is a coroutine of one event loop: it    *)
(* runs from the rate limiter to the await of the upstream call in one     *)
(* step, and from the answer of that call to its return in another.  A     *)
(* request that has left keeps its status and no longer its address.       *)
(***************************************************************************)
MaxVoiceRequests == 5
MaxVoiceClock == 3
MaxPlayers == 2
MaxScrapeClock == 6

VOICE_MIN_SECONDS_BETWEEN_SESSIONS == 2
VOICE_MAX_SESSIONS_PER_IP_PER_MINUTE == 12
VOICE_MAX_SESSIONS_PER_IP_PER_HOUR == 120
VOICE_MAX_SESSIONS_GLOBAL_PER_MINUTE == 120
VOICE_MAX_CONCURRENT_SESSION_CREATIONS == 4

VoiceRequests == 1..MaxVoiceRequests
VoiceIpOrder == <<"10.0.0.1", "10.0.0.2", "10.0.0.3">>
VoiceIps == Range(VoiceIpOrder)
NewRequest == [pc |-> "new", ip |-> "none", status |-> 0, detail |-> "none"]

\* _prune_times: drops from the left of the deque while the head is older
\* than the window.
RECURSIVE prune_times(_, _, _)
prune_times(q, now, window_s) ==
    IF q # <<>> /\ Head(q) < now - window_s
    THEN prune_times(Tail(q), now, window_s)
    ELSE q

\* st = _voice_ip_state.get(ip), created on the first request of the ip.
ip_state(ip) ==
    IF ip \in DOMAIN voice_ip_state
    THEN voice_ip_state[ip]
    ELSE [last |-> 0, minute |-> <<>>, hour |-> <<>>]

pruned_ip_state(ip, now) ==
    [ip_state(ip) EXCEPT !.minute = prune_times(@, now, 60),
                         !.hour = prune_times(@, now, 3600)]

pruned_global_state(now) ==
    [voice_global_state EXCEPT !.minute = prune_times(@, now, 60)]

concurrency_busy_never(g) == FALSE

\* The concurrency guard, the first of the checks.
concurrency_busy(g) == g.concurrent >= VOICE_MAX_CONCURRENT_SESSION_CREATIONS

\* The detail of the 429 the checks raise, in the order of the code, or
\* "admitted" when none of them does.
voice_verdict(st, g, now) ==
    IF concurrency_busy(g)
    THEN "Voice is busy right now. Try again in a few seconds."
    ELSE IF /\ VOICE_MIN_SECONDS_BETWEEN_SESSIONS > 0
            /\ st.last > 0
            /\ now - st.last < VOICE_MIN_SECONDS_BETWEEN_SESSIONS
    THEN "Please wait a moment before using voice again."
    ELSE IF Len(st.minute) >= VOICE_MAX_SESSIONS_PER_IP_PER_MINUTE
    THEN "Voice rate limit exceeded. Try again soon."
    ELSE IF Len(st.hour) >= VOICE_MAX_SESSIONS_PER_IP_PER_HOUR
    THEN "Voice hourly limit exceeded. Try again later."
    ELSE IF Len(g.minute) >= VOICE_MAX_SESSIONS_GLOBAL_PER_MINUTE
    THEN "Voice is temporarily rate-limited. Try again shortly."
    ELSE "admitted"

\* "Record the attempt + reserve a concurrency slot."
recorded_ip_state(st, now) ==
    [last |-> now, minute |-> Append(st.minute, now), hour |-> Append(st.hour, now)]

reserved_global_state(g, now) ==
    [minute |-> Append(g.minute, now), concurrent |-> g.concurrent + 1]

\* _release_voice_concurrency_slot.
release_voice_concurrency_slot(g) ==
    IF g.concurrent > 0 THEN [g EXCEPT !.concurrent = @ - 1] ELSE g

\* The ways the upstream call ends, and the status each one gives the
\* request: the answer itself, the upstream's error status, or 502.
PostOutcomes == {"success", "upstream_error", "connection_failure"}

exit_status(outcome) ==
    CASE outcome = "success" -> 200
      [] outcome = "upstream_error" -> 500
      [] outcome = "connection_failure" -> 502

after_post_leaky(outcome, g) ==
    [status |-> exit_status(outcome),
     global |-> IF outcome = "success" THEN release_voice_concurrency_slot(g) ELSE g]

\* The try statement around the upstream call: whatever the outcome, the
\* finally clause releases the slot (reserved_slot is True there).
after_post(outcome, g) ==
    [status |-> exit_status(outcome), global |-> release_voice_concurrency_slot(g)]

\* _enforce_voice_rate_limits, then reserved_slot = True and the upstream
\* call is posted; a rejected request leaves with 429.
EnforceVoiceRateLimits(r, ip) ==
    /\ voice_requests[r].pc = "new"
    /\ \A q \in VoiceRequests : q < r => voice_requests[q].pc # "new"
    /\ LET now == voice_clock
           st == pruned_ip_state(ip, now)
           g == pruned_global_state(now)
           verdict == voice_verdict(st, g, now)
       IN IF verdict = "admitted"
          THEN /\ voice_ip_state' = [i \in DOMAIN voice_ip_state \cup {ip} |->
                      IF i = ip THEN recorded_ip_state(st, now) ELSE voice_ip_state[i]]
               /\ voice_global_state' = reserved_global_state(g, now)
               /\ voice_requests' = [voice_requests EXCEPT ![r] =
                      [pc |-> "posting", ip |-> ip, status |-> 0, detail |-> "none"]]
          ELSE /\ voice_ip_state' = [i \in DOMAIN voice_ip_state \cup {ip} |->
                      IF i = ip THEN st ELSE voice_ip_state[i]]
               /\ voice_global_state' = g
               /\ voice_requests' = [voice_requests EXCEPT ![r] =
                      [pc |-> "done", ip |-> "none", status |-> 429, detail |-> verdict]]
    /\ UNCHANGED <<engine_vars, build_vars, query_vars, service_vars, cluster_vars,
                   voice_clock, scraper_vars>>

\* The upstream call ends and the handler leaves through finally.
CompleteSession(r, outcome) ==
    /\ voice_requests[r].pc = "posting"
    /\ LET out == after_post(outcome, voice_global_state)
       IN /\ voice_global_state' = out.global
          /\ voice_requests' = [voice_requests EXCEPT ![r] =
                 [pc |-> "done", ip |-> "none", status |-> out.status, detail |-> outcome]]
    /\ UNCHANGED <<engine_vars, build_vars, query_vars, service_vars, cluster_vars,
                   voice_ip_state, voice_clock, scraper_vars>>

VoiceTick(seconds) ==
    /\ voice_clock + seconds <= MaxVoiceClock
    /\ voice_clock' = voice_clock + seconds
    /\ UNCHANGED <<engine_vars, build_vars, query_vars, service_vars, cluster_vars,
                   voice_ip_state, voice_global_state, voice_requests, scraper_vars>>

\* The scrape queue is written further down; these are the values its
\* variables start from.
Puuids == 1..MaxPlayers
NoPuuid == 0
NULL == -1
Never == NULL

(***************************************************************************)
(* The scrape queue (src/database.py) and the loop of TFTScraper.run       *)
(* (src/server.py).  Times are whole minutes; a row of the table is a      *)
(* record of its last_scraped_at and priority columns under its puuid.     *)
(***************************************************************************)
RESCRAPE_MINUTES == 5
CHALLENGER == 9

\* add_to_scrape_queue: INSERT OR REPLACE puts a new row in the place of
\* the old one, and the new row has no last_scraped_at.
add_to_scrape_queue(queue, puuid, priority) ==
    [p \in DOMAIN queue \cup {puuid} |->
        IF p = puuid THEN [last_scraped_at |-> NULL, priority |-> priority]
        ELSE queue[p]]

RECURSIVE add_all_to_scrape_queue(_, _, _)
add_all_to_scrape_queue(queue, puuids, priority) ==
    IF puuids = {} THEN queue
    ELSE LET p == CHOOSE x \in puuids : TRUE
         IN add_all_to_scrape_queue(add_to_scrape_queue(queue, p, priority),
                                    puuids \ {p}, priority)

\* The WHERE clause of get_next_to_scrape.
due(queue, now) ==
    {p \in DOMAIN queue : \/ queue[p].last_scraped_at = NULL
                          \/ queue[p].last_scraped_at < now - RESCRAPE_MINUTES}

\* ORDER BY priority DESC, last_scraped_at ASC NULLS FIRST: row a is not
\* after row b.
not_after(a, b) ==
    \/ a.priority > b.priority
    \/ /\ a.priority = b.priority
       /\ \/ a.last_scraped_at = NULL
          \/ b.last_scraped_at # NULL /\ a.last_scraped_at <= b.last_scraped_at

\* get_next_to_scrape: the rows LIMIT 1 can return, more than one when the
\* first rows of the order are equal in both columns; empty for None.
get_next_to_scrape(queue, now) ==
    {p \in due(queue, now) : \A o \in due(queue, now) : not_after(queue[p], queue[o])}

\* mark_scraped: UPDATE ... SET last_scraped_at = CURRENT_TIMESTAMP.
mark_scraped(queue, puuid, now) ==
    [p \in DOMAIN queue |->
        IF p = puuid THEN [queue[p] EXCEPT !.last_scraped_at = now] ELSE queue[p]]

\* seed_from_top_players: the ladder's players enter with their tier's
\* priority.
Seed(ladder) ==
    /\ scraper.pc \in {"start", "loop"}
    /\ get_next_to_scrape(scrape_queue, scrape_clock) = {}
    /\ scrape_queue' = add_all_to_scrape_queue(scrape_queue, ladder, CHALLENGER)
    /\ scraper' = [pc |-> "loop", puuid |-> NoPuuid]
    /\ UNCHANGED <<engine_vars, build_vars, query_vars, service_vars, cluster_vars,
                   voice_vars, scrape_clock, marked_at>>

\* run finds a player due in the table at its start and goes to the loop.
StartLoop ==
    /\ scraper.pc = "start"
    /\ get_next_to_scrape(scrape_queue, scrape_clock) # {}
    /\ scraper' = [pc |-> "loop", puuid |-> NoPuuid]
    /\ UNCHANGED <<engine_vars, build_vars, query_vars, service_vars, cluster_vars,
                   voice_vars, scrape_queue, scrape_clock, marked_at>>

\* puuid = self.db.get_next_to_scrape() at the top of the loop.
GetNextToScrape ==
    /\ scraper.pc = "loop"
    /\ \E puuid \in get_next_to_scrape(scrape_queue, scrape_clock) :
           scraper' = [pc |-> "scraping", puuid |-> puuid]
    /\ UNCHANGED <<engine_vars, build_vars, query_vars, service_vars, cluster_vars,
                   voice_vars, scrape_queue, scrape_clock, marked_at>>

\* scrape_player_matches returns: the participants of the new matches have
\* been added with priority 0, then mark_scraped and the short sleep.
ScrapePlayerMatches(participants) ==
    /\ scraper.pc = "scraping"
    /\ scrape_queue' = mark_scraped(add_all_to_scrape_queue(scrape_queue, participants, 0),
                                    scraper.puuid, scrape_clock)
    /\ marked_at' = [marked_at EXCEPT ![scraper.puuid] = scrape_clock]
    /\ scraper' = [pc |-> "loop", puuid |-> NoPuuid]
    /\ UNCHANGED <<engine_vars, build_vars, query_vars, service_vars, cluster_vars,
                   voice_vars, scrape_clock>>

\* scrape_player_matches raises after it has added some participants: the
\* except clause is entered and mark_scraped is not called.
ScrapeRaises(added) ==
    /\ scraper.pc = "scraping"
    /\ scrape_queue' = add_all_to_scrape_queue(scrape_queue, added, 0)
    /\ scraper' = [scraper EXCEPT !.pc = "error"]
    /\ UNCHANGED <<engine_vars, build_vars, query_vars, service_vars, cluster_vars,
                   voice_vars, scrape_clock, marked_at>>

\* The except clause: the error is printed, the loop sleeps and goes on.
SleepAfterError ==
    /\ scraper.pc = "error"
    /\ scraper' = [pc |-> "loop", puuid |-> NoPuuid]
    /\ UNCHANGED <<engine_vars, build_vars, query_vars, service_vars, cluster_vars,
                   voice_vars, scrape_queue, scrape_clock, marked_at>>

\* The scraper is stopped (running set to False, the loop left at its
\* test) and run again later: the table is in the database file and is
\* kept.
RestartScraper ==
    /\ scraper.pc = "loop"
    /\ scraper' = [pc |-> "start", puuid |-> NoPuuid]
    /\ UNCHANGED <<engine_vars, build_vars, query_vars, service_vars, cluster_vars,
                   voice_vars, scrape_queue, scrape_clock, marked_at>>

ScrapeTick(minutes) ==
    /\ scrape_clock + minutes <= MaxScrapeClock
    /\ scrape_clock' = scrape_clock + minutes
    /\ UNCHANGED <<engine_vars, build_vars, query_vars, service_vars, cluster_vars,
                   voice_vars, scrape_queue, scraper, marked_at>>

(***************************************************************************)
(* Specifications.  Each draws the database rows from its own input sets.  *)
(***************************************************************************)
Init ==
    /\ phase = "units"
    /\ max_id \in 0..MaxPm
    /\ placements = [i \in 0..max_id |-> 0]
    /\ all_players = {}
    /\ id_to_token = <<>>
    /\ token_data = <<>>
    /\ tokens = <<>>
    /\ current_pm_id = NoBoard
    /\ current_placement = 0
    /\ board_items = {}
    /\ board_unit_count = 0
    /\ unit_rows = <<>>
    /\ trait_rows = <<>>
    /\ last_call = NoCall
    /\ labels = <<>>
    /\ necessity = NoNecessity
    /\ engine_file = NoFile
    /\ loaded = NotLoaded
    /\ db_labels = <<>>
    /\ ENGINE = "unset"
    /\ response = NoResponse
    /\ CACHE = <<>>
    /\ MEMBERS_CACHE = <<>>
    /\ CACHE_LOCK = 0
    /\ clock = 0
    /\ threads = [t \in CacheThreads |-> IdleThread]
    /\ voice_ip_state = <<>>
    /\ voice_global_state = [minute |-> <<>>, concurrent |-> 0]
    /\ voice_requests = [r \in VoiceRequests |-> NewRequest]
    /\ voice_clock = 1
    /\ scrape_queue = <<>>
    /\ scraper = [pc |-> "start", puuid |-> NoPuuid]
    /\ scrape_clock = 0
    /\ marked_at = [p \in Puuids |-> Never]

QueryTokens == {"U:A", "U:B", "U:Zed"}

EndUnitPassAny == \E order \in SeqsUpTo({"I", "J"}, 2) : EndUnitPass(order)

\* Filter queries over a database of units A and B.
UnitPassFilter ==
    \E pm_id \in 1..MaxPm, unit_name_raw \in {"None", "TFT16_A", "TFT16_B"} :
        ProcessUnitRow(pm_id, 4, unit_name_raw, 1, <<>>, <<>>)

FilterQuery ==
    \E include_tokens \in SeqsUpTo(QueryTokens, MaxInclude),
       exclude_tokens \in SeqsUpTo(QueryTokens, MaxExclude) :
        FilterBitmap(include_tokens, exclude_tokens)

Next ==
    \/ UnitPassFilter
    \/ EndUnitPassAny
    \/ FinishBuild
    \/ FilterQuery

Spec == Init /\ [][Next]_vars

\* Average queries over a database of boards with different placements.
UnitPassAvg ==
    \E pm_id \in 1..MaxPm, placement \in PlacementValues,
       unit_name_raw \in {"None", "TFT16_A"} :
        ProcessUnitRow(pm_id, placement, unit_name_raw, 1, <<>>, <<>>)

AvgQuery == \E bitmap \in SUBSET (1..MaxPm) : AvgPlacementForBitmap(bitmap)

NextAvg ==
    \/ UnitPassAvg
    \/ EndUnitPassAny
    \/ FinishBuild
    \/ AvgQuery

SpecAvg == Init /\ [][NextAvg]_vars

\* Build over a database of one unit at every star level.
UnitPassStar ==
    \E pm_id \in 1..MaxPm, unit_name_raw \in {"TFT16_A", "TFT_A"},
       unit_tier \in 1..MaxStar :
        ProcessUnitRow(pm_id, 4, unit_name_raw, unit_tier, <<>>, <<>>)

NextStar ==
    \/ UnitPassStar
    \/ EndUnitPassAny
    \/ FinishBuild

SpecStar == Init /\ [][NextStar]_vars

\* Build over a database of one unit carrying items.
EquipItemLists ==
    SeqsUpTo({"TFT_Item_I"}, MaxItems)
    \cup {<<"TFT_Item_I", "TFT_Item_EmptyBag", "TFT_Item_I">>,
          <<"TFT16_Item_J", "TFT_Item_I">>}

UnitPassEquip ==
    \E pm_id \in 1..MaxPm, items \in EquipItemLists,
       order \in SeqsUpTo({"I", "J"}, 2) :
        ProcessUnitRow(pm_id, 4, "TFT16_A", 1, items, order)

NextEquip ==
    \/ UnitPassEquip
    \/ EndUnitPassAny
    \/ FinishBuild

SpecEquip == Init /\ [][NextEquip]_vars

\* Build over a database of boards with trait lists.
TraitInputs == [name : {"TFT16_D"}, tier : 0..MaxTraitTier]

UnitPassTrait ==
    \E pm_id \in 1..MaxPm, placement \in {1, 8} :
        ProcessUnitRow(pm_id, placement, "None", 1, <<>>, <<>>)

TraitPass ==
    \E pm_id \in 1..MaxPm, traits \in SeqsUpTo(TraitInputs, MaxTraits) :
        ProcessTraitRow(pm_id, traits)

NextTrait ==
    \/ UnitPassTrait
    \/ EndUnitPassAny
    \/ TraitPass
    \/ FinishBuild

SpecTrait == Init /\ [][NextTrait]_vars

\* Snapshot build and load: rows of one unit, one-star without items or
\* two-star holding the same item twice.
CodecRows == {[unit_tier |-> 1, items |-> <<>>],
              [unit_tier |-> 2, items |-> <<"TFT_Item_I", "TFT_Item_I">>]}

UnitPassCodec ==
    \E pm_id \in 1..MaxPm, row \in CodecRows, order \in SeqsUpTo({"I"}, 1) :
        ProcessUnitRow(pm_id, 4, "TFT16_A", row.unit_tier, row.items, order)

ItemDisplayNameMaps == {<<>>, [k \in {"i"} |-> "Edge"]}

FileVersions == {1, 3, 4}

Precompute ==
    \E est \in [equipped_token_ids -> EstimateOutcomes], scope \in [UnitNames -> 1..2] :
        PrecomputeNecessityCacheTop4(est, scope)

NextCodec ==
    \/ UnitPassCodec
    \/ EndUnitPassAny
    \/ FinishBuild
    \/ \E m \in ItemDisplayNameMaps : ApplyItemDisplayNames(m)
    \/ Precompute
    \/ Save
    \/ \E version \in FileVersions : UploadData(version)
    \/ Load

SpecCodec == Init /\ [][NextCodec]_vars

\* Server start and requests, over the snapshot build of one unit.
UnitPassServer ==
    \E pm_id \in 1..MaxPm, row \in CodecRows, order \in SeqsUpTo({"I"}, 1) :
        ProcessUnitRow(pm_id, 1, "TFT16_A", row.unit_tier, row.items, order)

PrecomputeOne ==
    \E est \in [equipped_token_ids -> {o \in EstimateOutcomes : o.tau # "-0.05"}],
       scope \in [UnitNames -> 1..2] :
        PrecomputeNecessityCacheTop4(est, scope)

GraphTokens == {[negated |-> FALSE, raw |-> "U:A"], [negated |-> TRUE, raw |-> "E:A|I:2"]}

GraphTokenLists == SeqsUpTo(GraphTokens, MaxInclude)

\* The server starts on a data directory no build is running on.
ServerStart ==
    /\ phase = "saved" \/ unit_rows = <<>>
    /\ \E db_exists \in BOOLEAN : Lifespan(db_exists)

\* The build and the upload come before the server starts.
BeforeStart == ENGINE = "unset"

NextServer ==
    \/ BeforeStart /\ UnitPassServer
    \/ BeforeStart /\ EndUnitPassAny
    \/ BeforeStart /\ FinishBuild
    \/ BeforeStart /\ PrecomputeOne
    \/ BeforeStart /\ Save
    \/ BeforeStart /\ \E version \in FileVersions : UploadData(version)
    \/ ServerStart
    \/ GetStats
    \/ \E token_list \in GraphTokenLists : GetGraph(token_list)
    \/ \E endpoint \in GuardedEndpoints : EngineCheck(endpoint)

SpecServer == Init /\ [][NextServer]_vars

\* ---------------------------------------------------------------------
\* Item taxonomy specification: get_item_type on names put together from the
\* fragments its rules look for.

MaxNameParts == 2

NamePart ==
    { str_TFT, str_Set, str_underscore, str_Radiant, str_Artifact_,
      str_Item_Ornn, str_EmblemItem, str_TFT_Item_Emblem_,
      <<"S", "p", "a", "t", "u", "l", "a">>, <<"X">> }

RECURSIVE concat(_)
concat(parts) ==
    IF parts = <<>> THEN <<>> ELSE Head(parts) \o concat(Tail(parts))

ItemNameInputs ==
    { concat(parts) : parts \in SeqsUpTo(NamePart, MaxNameParts) \ {<<>>} }

NextItems ==
    \E item_name \in ItemNameInputs : GetItemType(item_name)

SpecItems == Init /\ [][NextItems]_vars

\* ---------------------------------------------------------------------
\* Gate specification: the two estimators on samples of production size.

SampleSizes == {0, 300, 4000, 4010, 4020}

TreatedCounts == {0, 60, 150, 2000}

UsedCounts == {0, 199, 200, 201}

TreatedUsedCounts == {0, 49, 50, 100, 150}

NextGate ==
    \E n \in SampleSizes, n_treated \in TreatedCounts,
       n_used \in UsedCounts, n_treated_used \in TreatedUsedCounts :
        \/ AipwAte(n, n_treated, n_used, n_treated_used)
        \/ ClusterAdjustedRow(n, n_treated, n_used, n_treated_used)

SpecGate == Init /\ [][NextGate]_vars

\* ---------------------------------------------------------------------
\* Necessity specification: the snapshot of one unit, one-star without
\* items or two-star holding one item, served by the three endpoints.

NecessityRows == {[unit_tier |-> 1, items |-> <<>>],
                  [unit_tier |-> 2, items |-> <<"TFT_Item_I">>]}

UnitPassNecessity ==
    \E pm_id \in 1..MaxPm, row \in NecessityRows, order \in SeqsUpTo({"I"}, 1) :
        ProcessUnitRow(pm_id, 1, "TFT16_A", row.unit_tier, row.items, order)

Samples ==
    {[n |-> 0, n_treated |-> 0, n_used |-> 0, n_treated_used |-> 0],
     [n |-> 300, n_treated |-> 0, n_used |-> 0, n_treated_used |-> 0],
     [n |-> 300, n_treated |-> 300, n_used |-> 0, n_treated_used |-> 0],
     [n |-> 300, n_treated |-> 40, n_used |-> 250, n_treated_used |-> 40],
     [n |-> 300, n_treated |-> 150, n_used |-> 150, n_treated_used |-> 75],
     [n |-> 4010, n_treated |-> 2000, n_used |-> 200, n_treated_used |-> 100]}

UnitItemsRequests ==
    {[unit |-> unit, include_filters |-> inc, exclude_filters |-> exc,
      necessity_outcome |-> outcome, dominated |-> dominated] :
        unit \in {"A", "B"}, inc \in {<<>>, <<"I:I">>}, exc \in {<<>>, <<"U:A:1">>},
        outcome \in {"top4", "win"}, dominated \in BOOLEAN}

ItemUnitsRequests ==
    {[item |-> item, include_filters |-> inc, exclude_filters |-> <<>>] :
        item \in {"I", "J"}, inc \in {<<>>, <<"U:A:2">>}}

NecessityParams ==
    {[by_cluster |-> FALSE, default_params |-> TRUE],
     [by_cluster |-> TRUE, default_params |-> TRUE],
     [by_cluster |-> FALSE, default_params |-> FALSE]}

ItemNecessityRequests ==
    {[unit |-> "A", item |-> item, include_filters |-> inc, exclude_filters |-> <<>>,
      outcome |-> outcome, unit_stars_min |-> unit_stars_min,
      auto_unit_stars_min |-> unit_stars_min = 1, dominated |-> dominated,
      by_cluster |-> params.by_cluster, default_params |-> params.default_params] :
        item \in {"I", "J"}, inc \in {<<>>, <<"U:A">>}, outcome \in {"top4", "win"},
        unit_stars_min \in 1..2, dominated \in BOOLEAN, params \in NecessityParams}

NextNecessity ==
    \/ BeforeStart /\ UnitPassNecessity
    \/ BeforeStart /\ EndUnitPassAny
    \/ BeforeStart /\ FinishBuild
    \/ BeforeStart /\ PrecomputeOne
    \/ BeforeStart /\ Save
    \/ ServerStart
    \/ \E req \in UnitItemsRequests, sample \in Samples : GetUnitItems(req, sample)
    \/ \E req \in ItemUnitsRequests : GetItemUnits(req)
    \/ \E req \in ItemNecessityRequests, sample \in Samples : GetItemNecessity(req, sample)

SpecNecessity == Init /\ [][NextNecessity]_vars

\* ---------------------------------------------------------------------
\* Clustering specification: bases of up to MaxBase rows split in two.

MaxBase == 7

ClusterParamSets ==
    {[n_clusters |-> 2, min_cluster_size |-> m] : m \in 1..4}

\* A labelling is drawn only where fit_predict runs.
NextClusters ==
    \E n_base \in 0..MaxBase, params \in ClusterParamSets, n_features \in 1..2 :
        \E km_labels \in IF too_small_to_cluster(n_base, params) \/ n_features < 2
                      THEN {[r \in 1..n_base |-> 0]}
                      ELSE [1..n_base -> 0..(params.n_clusters - 1)] :
            ClusterBase(n_base, params, n_features, km_labels)

SpecClusters == Init /\ [][NextClusters]_vars

\* ---------------------------------------------------------------------
\* Cache specification: one thread serves /clusters and one
\* /cluster-playbook.  While the caches fill, requests come one at a time,
\* each for the next key no request has used; once CACHE_MAX keys are
\* cached the two threads run side by side, a request asks for the next key
\* or for the key used last, and the clock moves in steps longer than the TTL.

MaxKeys == 25

MaxTicks == 1

TickSeconds == {CACHE_TTL_S + 1}

UsedKeys ==
    {CACHE[i].key : i \in DOMAIN CACHE}
    \cup {MEMBERS_CACHE[i].key : i \in DOMAIN MEMBERS_CACHE}
    \cup {threads[t].key : t \in CacheThreads}

max_of(S) == CHOOSE k \in S : \A j \in S : j <= k

LastKey == max_of(UsedKeys \cup {0})

Filling == LastKey < CACHE_MAX

Quiet == \A t \in CacheThreads : threads[t].pc = "idle"

RequestKeys ==
    {k \in (IF Filling THEN {LastKey + 1} ELSE {LastKey, LastKey + 1}) : k \in 1..MaxKeys}

\* The playbook of a cluster is asked for after its clusters were shown.
PlaybookKeys == {k \in {LastKey} : k \in 1..MaxKeys}

\* The cluster asked for is the first one.
PlaybookClusters == {0}

Arrival == Filling => Quiet

NextCache ==
    \/ Arrival /\ \E key \in RequestKeys : StartClusters(1, key)
    \/ Arrival /\ \E key \in PlaybookKeys, cluster_id \in PlaybookClusters :
          StartPlaybook(2, key, cluster_id)
    \/ \E t \in CacheThreads : Acquire(t)
    \/ \E t \in CacheThreads : ClustersCacheGet(t)
    \/ \E t \in CacheThreads : ClustersCompute(t)
    \/ \E t \in CacheThreads : ClustersCacheSet(t)
    \/ \E t \in CacheThreads : ClustersMembersSet(t)
    \/ \E t \in CacheThreads : PlaybookCacheGet(t)
    \/ \E t \in CacheThreads : PlaybookMembersGet(t)
    \/ \E t \in CacheThreads : PlaybookMembersGetAgain(t)
    \/ \E t \in CacheThreads : PlaybookAnswer(t)
    \/ \E seconds \in TickSeconds :
          ~Filling /\ clock + seconds <= MaxTicks * (CACHE_TTL_S + 1) /\ Tick(seconds)

\* The caches do not read the engine: the database is left empty.
InitCache == Init /\ max_id = 0

SpecCache == InitCache /\ [][NextCache]_vars

\* ---------------------------------------------------------------------
\* Proxy specification: boards of up to MaxBoardUnits unit rows.

MaxBoardUnits == 2

ProxyItemIds == {"TFT_Item_I", "BFSword", "TFT_Item_EmptyBag"}

BoardRows ==
    [unit_name : UnitNames, items : SeqsUpTo(ProxyItemIds, MaxItems)]

NextProxies ==
    \E rows \in SeqsUpTo(BoardRows, MaxBoardUnits), unit \in UnitNames :
        BoardStrength(rows, unit)

\* The proxies are computed from the board rows given: the database is left empty.
SpecProxies == InitCache /\ [][NextProxies]_vars

\* ---------------------------------------------------------------------
\* Voice specification: MaxVoiceRequests requests from three addresses, the
\* clock moving by the cooldown up to MaxVoiceClock.  The addresses are
\* interchangeable, so a request comes from an address already seen or from
\* the first one not yet seen.
VoiceTickSeconds == {VOICE_MIN_SECONDS_BETWEEN_SESSIONS}

ArrivingIps ==
    {VoiceIpOrder[i] : i \in {j \in DOMAIN VoiceIpOrder :
                                  j <= Cardinality(DOMAIN voice_ip_state) + 1}}

NextVoice ==
    \/ \E r \in VoiceRequests, ip \in ArrivingIps : EnforceVoiceRateLimits(r, ip)
    \/ \E r \in VoiceRequests, outcome \in PostOutcomes : CompleteSession(r, outcome)
    \/ \E seconds \in VoiceTickSeconds : VoiceTick(seconds)

SpecVoice == InitCache /\ [][NextVoice]_vars

\* ---------------------------------------------------------------------
\* Scraper specification: MaxPlayers players, any of them on the ladder or
\* in the matches of another, the clock moving by three minutes up to
\* MaxScrapeClock.  A new match of a player has that player among its
\* participants.
ScrapeTickMinutes == {3}
Ladders == SUBSET Puuids \ {{}}
MatchParticipants(puuid) == {{}} \cup {S \in SUBSET Puuids : puuid \in S}

LoopStep ==
    \/ \E ladder \in Ladders : Seed(ladder)
    \/ StartLoop
    \/ GetNextToScrape
    \/ \E participants \in MatchParticipants(scraper.puuid) :
           ScrapePlayerMatches(participants)
    \/ \E added \in SUBSET Puuids : ScrapeRaises(added)
    \/ SleepAfterError

NextScraper ==
    \/ LoopStep
    \/ RestartScraper
    \/ \E minutes \in ScrapeTickMinutes : ScrapeTick(minutes)

SpecScraper == InitCache /\ [][NextScraper]_vars

\* While self.running holds the loop takes its next step.
SpecScraperFair == SpecScraper /\ WF_vars(LoopStep)

(***************************************************************************)
(* Properties.                                                             *)
(***************************************************************************)
\* The bitmap of a token, empty when the engine has no such token.
Bitmap(token) == IF KnownToken(token) THEN bitmap_of(token) ELSE {}

FilterCalled == last_call.op = "filter_bitmap"

AllKnown(token_strs) == \A i \in DOMAIN token_strs : KnownToken(token_strs[i])

\* C1: for include and exclude lists of known tokens, filter_bitmap returns
\* exactly the pm ids that are in the bitmap of every include token and in
\* the bitmap of no exclude token (the pm ids being those of all_players).
C1_FilterIsIntersectMinusUnion ==
    (FilterCalled /\ AllKnown(last_call.include) /\ AllKnown(last_call.exclude))
    => last_call.bitmap =
         {pm \in all_players :
             /\ \A i \in DOMAIN last_call.include : pm \in bitmap_of(last_call.include[i])
             /\ \A j \in DOMAIN last_call.exclude : pm \notin bitmap_of(last_call.exclude[j])}

\* C1 witness: filter(["U:B"], ["U:A"]) with both tokens known returned a
\* non-empty bitmap from which the exclusion removed a pm id.
C1_Witness ==
    /\ FilterCalled
    /\ last_call.include = <<"U:B">>
    /\ last_call.exclude = <<"U:A">>
    /\ KnownToken("U:A") /\ KnownToken("U:B")
    /\ last_call.bitmap # {}
    /\ last_call.bitmap # bitmap_of("U:B")

\* C2: filter_bitmap with an empty include list and an empty exclude list
\* returns a bitmap equal to all_players.
C2_EmptyFilterIsAllPlayers ==
    (FilterCalled /\ last_call.include = <<>> /\ last_call.exclude = <<>>)
    => last_call.bitmap = all_players

\* C2 witness: the empty filter was evaluated on an engine with players.
C2_Witness ==
    /\ FilterCalled
    /\ last_call.include = <<>>
    /\ last_call.exclude = <<>>
    /\ Cardinality(all_players) >= 2
    /\ last_call.bitmap # {}

\* C3: exclude duality: for an include list T and a token x,
\* |filter(T, [x])| = |filter(T, [])| - |filter(T + [x], [])|.
C3_ExcludeDuality ==
    (FilterCalled /\ Len(last_call.exclude) = 1)
    => Cardinality(last_call.bitmap) =
         Cardinality(filter_bitmap(last_call.include, <<>>))
         - Cardinality(filter_bitmap(Append(last_call.include, last_call.exclude[1]), <<>>))

\* C3 witness: a known token was excluded from a non-empty include list and
\* took some but not all pm ids away.
C3_Witness ==
    /\ FilterCalled
    /\ Len(last_call.exclude) = 1
    /\ KnownToken(last_call.exclude[1])
    /\ last_call.include # <<>>
    /\ last_call.bitmap # {}
    /\ Cardinality(last_call.bitmap) < Cardinality(filter_bitmap(last_call.include, <<>>))

\* C4: an include list with an unknown token gives the empty bitmap; unknown
\* tokens of the exclude list are ignored: the result is that of the call
\* without them.
C4_UnknownTokens ==
    FilterCalled
    => /\ ~AllKnown(last_call.include) => last_call.bitmap = {}
       /\ last_call.bitmap =
            filter_bitmap(last_call.include, SelectSeq(last_call.exclude, KnownToken))

\* C4 witness: a call whose exclude list holds an unknown token returned a
\* non-empty bitmap.
C4_Witness ==
    /\ FilterCalled
    /\ ~AllKnown(last_call.exclude)
    /\ last_call.include # <<>>
    /\ last_call.bitmap # {}

\* C5: filter(T, []) is the same bitmap in whatever order the tokens of T
\* are given.
C5_OrderIndependent ==
    (FilterCalled /\ last_call.exclude = <<>>)
    => \A other \in SeqsUpTo(QueryTokens, MaxInclude) :
          (/\ Len(other) = Len(last_call.include)
           /\ \A token \in QueryTokens :
                Cardinality({i \in DOMAIN other : other[i] = token})
                = Cardinality({i \in DOMAIN last_call.include : last_call.include[i] = token}))
          => filter_bitmap(other, <<>>) = last_call.bitmap

\* C5 witness: two different known tokens with different bitmaps were given
\* and the result is not empty.
C5_Witness ==
    /\ FilterCalled
    /\ last_call.exclude = <<>>
    /\ Len(last_call.include) = 2
    /\ last_call.include[1] # last_call.include[2]
    /\ AllKnown(last_call.include)
    /\ bitmap_of(last_call.include[1]) # bitmap_of(last_call.include[2])
    /\ last_call.bitmap # {}

\* Removes position i of a sequence.
Without(s, i) == SubSeq(s, 1, i - 1) \o SubSeq(s, i + 1, Len(s))

\* C6: monotonicity: adding a token x to an include list T does not make
\* the result larger, |filter(T + [x], [])| <= |filter(T, [])|.
C6_Monotone ==
    (FilterCalled /\ last_call.exclude = <<>>)
    => \A i \in DOMAIN last_call.include :
          Cardinality(last_call.bitmap)
          <= Cardinality(filter_bitmap(Without(last_call.include, i), <<>>))

\* C6 witness: a second known token made a non-empty result strictly smaller.
C6_Witness ==
    /\ FilterCalled
    /\ last_call.exclude = <<>>
    /\ Len(last_call.include) = 2
    /\ AllKnown(last_call.include)
    /\ last_call.bitmap # {}
    /\ Cardinality(last_call.bitmap)
       < Cardinality(filter_bitmap(<<last_call.include[1]>>, <<>>))

StarToken(k) == "U:A:" \o ToString(k)

\* Unit rows of a board for a cleaned unit name.
RowsOf(pm_id, unit_name) ==
    {i \in DOMAIN unit_rows :
        /\ unit_rows[i].pm_id = pm_id
        /\ unit_rows[i].unit_name # "None"
        /\ clean_unit_name(unit_rows[i].unit_name) = unit_name}

\* C7 as stated: in a built snapshot bitmap(U:X:k+1) is a subset of
\* bitmap(U:X:k), which is a subset of bitmap(U:X), for every star level k.
C7_StarChain ==
    phase = "built"
    => \A k \in 1..MaxStar :
          /\ Bitmap(StarToken(k + 1)) \subseteq Bitmap(StarToken(k))
          /\ Bitmap(StarToken(k)) \subseteq Bitmap("U:A")

\* C7 amended: in a built snapshot bitmap(U:X:k) is a subset of bitmap(U:X)
\* for every star level k, and holds the boards with a unit X at exactly
\* star level k.
C7_StarInBase ==
    phase = "built"
    => \A k \in 1..MaxStar :
          /\ Bitmap(StarToken(k)) \subseteq Bitmap("U:A")
          /\ \A pm \in all_players :
                pm \in Bitmap(StarToken(k))
                <=> \E i \in RowsOf(pm, "A") : unit_rows[i].unit_tier = k

\* C7 witness: a built snapshot with a board in U:A:2 and U:A but not U:A:1.
C7_Witness ==
    /\ phase = "built"
    /\ \E pm \in all_players :
          /\ pm \in Bitmap(StarToken(2))
          /\ pm \in Bitmap("U:A")
          /\ pm \notin Bitmap(StarToken(1))

\* Copies of an item in the items list of one unit row.
RowCopies(i, item_name) ==
    Cardinality({j \in DOMAIN unit_rows[i].items :
                    clean_item_name(unit_rows[i].items[j]) = item_name})

\* Copies of an item over all the rows of a unit name on a board.
BoardCopies(pm_id, unit_name, item_name) ==
    SumOver([i \in DOMAIN unit_rows |-> RowCopies(i, item_name)], RowsOf(pm_id, unit_name))

\* Largest number of copies of an item on one row of a unit name on a board.
UnitCopies(pm_id, unit_name, item_name) ==
    LET counts == {RowCopies(i, item_name) : i \in RowsOf(pm_id, unit_name)} \cup {0}
    IN CHOOSE m \in counts : \A c \in counts : c <= m

\* C8 as stated: with copies counted over the whole board for the unit name,
\* the pm id is in E:U|I:k (k = 2, 3) exactly when copies >= k and in E:U|I
\* exactly when copies >= 1.
C8_BoardCopies ==
    phase = "built"
    => \A pm \in all_players, item_name \in {"I", "J"} :
          /\ pm \in Bitmap("E:A|" \o item_name)
             <=> BoardCopies(pm, "A", item_name) >= 1
          /\ \A k \in {2, 3} :
                pm \in Bitmap("E:A|" \o item_name \o ":" \o ToString(k))
                <=> BoardCopies(pm, "A", item_name) >= k

\* C8 amended: with copies counted per unit row (one unit on the board), the
\* pm id is in E:U|I:k (k = 2, 3) exactly when some unit named U on the board
\* carries at least k copies of I, and in E:U|I exactly when one carries at
\* least 1.
C8_UnitCopies ==
    phase = "built"
    => \A pm \in all_players, item_name \in {"I", "J"} :
          /\ pm \in Bitmap("E:A|" \o item_name)
             <=> UnitCopies(pm, "A", item_name) >= 1
          /\ \A k \in {2, 3} :
                pm \in Bitmap("E:A|" \o item_name \o ":" \o ToString(k))
                <=> UnitCopies(pm, "A", item_name) >= k

\* C8 witness: a built snapshot with a board where two units A carry three
\* copies of I between them, two on one unit: the board is in E:A|I:2 and not
\* in E:A|I:3.
C8_Witness ==
    /\ phase = "built"
    /\ \E pm \in all_players :
          /\ Cardinality(RowsOf(pm, "A")) = 2
          /\ BoardCopies(pm, "A", "I") = 3
          /\ UnitCopies(pm, "A", "I") = 2
          /\ pm \in Bitmap("E:A|I:2")
          /\ pm \notin Bitmap("E:A|I:3")

TierToken(k) == "T:D:" \o ToString(k)

\* A trait entry of the board reports tier k or more.
ReportsTier(pm_id, k) ==
    /\ pm_id \in DOMAIN trait_rows
    /\ \E i \in DOMAIN trait_rows[pm_id] : trait_rows[pm_id][i].tier >= k

\* C9: a trait entry with reported tier t puts the pm id in T:<Trait>:k for
\* every 2 <= k <= t and in no T:<Trait>:k with k > t; a level no entry
\* reaches has no token.
C9_TraitTiers ==
    phase = "built"
    => \A k \in 2..(MaxTraitTier + 1) :
          /\ \A pm \in all_players : pm \in Bitmap(TierToken(k)) <=> ReportsTier(pm, k)
          /\ HasToken(id_to_token, TierToken(k)) <=> \E pm \in all_players : ReportsTier(pm, k)

\* C9 witness: a built snapshot with a board whose only D entry has tier 3:
\* the board is in T:D:2 and T:D:3 and there is no T:D:4 token.
C9_Witness ==
    /\ phase = "built"
    /\ \E pm \in DOMAIN trait_rows :
          /\ trait_rows[pm] = <<[name |-> "TFT16_D", tier |-> 3]>>
          /\ pm \in Bitmap(TierToken(2))
          /\ pm \in Bitmap(TierToken(3))
    /\ ~HasToken(id_to_token, TierToken(4))

AvgCalled == last_call.op = "avg_placement_for_bitmap"

\* C10: for a bitmap with count > 0, avg_placement_for_bitmap lies in [1, 8]
\* and equals placement_sum / count of a token whose bitmap it is.
C10_AverageConsistent ==
    (AvgCalled /\ last_call.bitmap # {})
    => /\ last_call.avg.den > 0
       /\ 1 * last_call.avg.den <= last_call.avg.num
       /\ last_call.avg.num <= 8 * last_call.avg.den
       /\ \A token_id \in DOMAIN tokens :
             tokens[token_id].bitmap = last_call.bitmap
             => /\ tokens[token_id].count > 0
                /\ last_call.avg.num * tokens[token_id].count
                   = tokens[token_id].placement_sum * last_call.avg.den

\* C10 witness: the average was taken over the bitmap of a token that was
\* emitted more than once for a board, with two different placements in it.
C10_Witness ==
    /\ AvgCalled
    /\ \E token_id \in DOMAIN tokens :
          /\ tokens[token_id].bitmap = last_call.bitmap
          /\ Len(token_data[token_id].ids) > tokens[token_id].count
          /\ \E p, q \in last_call.bitmap : placements[p] # placements[q]

LoadedOk == loaded.status = "ok"

\* C11: Snapshot round-trip: the engine returned by load for the file written
\* by save equals the saved engine: token ids, per-token bitmaps and
\* statistics, placements, AllPlayers, necessity arrays and labels.
C11_RoundTrip == LoadedOk => loaded.engine = CurrentEngine

C11_Witness ==
    /\ LoadedOk
    /\ necessity.ready
    /\ \E i \in DOMAIN labels : labels[i] = "Edge"
    /\ \E i \in DOMAIN tokens : Cardinality(tokens[i].bitmap) >= 2

\* C12: Loading a snapshot whose version field is not 3 fails with a load
\* error and yields no engine: the load returns the error, and the server
\* then runs without an engine or with one rebuilt from the database, whose
\* snapshot it writes anew.
C12_VersionMismatch ==
    [][(engine_file.exists /\ engine_file.version # 3 /\ loaded' # loaded)
       => /\ loaded'.status = "error"
          /\ DOMAIN loaded' = {"status", "error"}
          /\ ENGINE' = "none" \/ engine_file' = save(CurrentEngine)]_vars

C12_Witness ==
    /\ engine_file.exists
    /\ engine_file.version = 4
    /\ loaded.status = "error"
    /\ ENGINE = "none"

Answered == response # NoResponse

\* C16: When no engine is loaded, every endpoint of the query surface
\* answers with the 'Engine not loaded' response.
C16_EngineNotLoaded ==
    (ENGINE = "none" /\ Answered)
    => (response.status_code = 503 /\ response.detail = "Engine not loaded")

FracEq(a, b) == a.num * b.den = b.num * a.den

GraphAnswered == response.endpoint = "graph" /\ response.status_code = 200

\* C18: For every filter token list given to graph(), the empty list
\* included, the base statistics of the response are those of
\* base = filter(include, exclude): n is its cardinality and avg_placement
\* the mean placement over it.
C18_GraphBaseOnFilter ==
    GraphAnswered =>
        LET base == filter_bitmap(raw_tokens(include_of(response.tokens)),
                                  raw_tokens(exclude_of(response.tokens)))
        IN /\ response.base.n = Cardinality(base)
           /\ FracEq(response.base.avg_placement, avg_placement_for_bitmap(base))

ItemTypeCalled == last_call.op = "get_item_type"

is_component(name) == name \in COMPONENT_ITEMS

set_prefixed(name) ==
    (startswith(name, str_TFT) \/ startswith(name, str_Set)) /\ contains(name, str_underscore)

artifact_named(name) == startswith(name, str_Artifact_) \/ contains(name, str_Item_Ornn)

emblem_named(name) ==
    endswith(name, str_EmblemItem) \/ startswith(name, str_TFT_Item_Emblem_)

\* C19 as stated: get_item_type answers with the first matching rule in the
\* order component, artifact (Artifact_ prefix, Item_Ornn inside, or set
\* prefix with "_"), emblem, radiant, full.
C19_ArtifactBeforeRadiant ==
    ItemTypeCalled =>
        LET name == last_call.item_name IN
        last_call.item_type =
            IF is_component(name) THEN "component"
            ELSE IF artifact_named(name) \/ set_prefixed(name) THEN "artifact"
            ELSE IF emblem_named(name) THEN "emblem"
            ELSE IF endswith(name, str_Radiant) THEN "radiant"
            ELSE "full"

\* C19 amended: the answer is component exactly for the names of
\* COMPONENT_ITEMS; otherwise artifact for a set-prefixed name with "_";
\* otherwise radiant for a name ending "Radiant"; otherwise artifact for an
\* Artifact_ prefix or Item_Ornn inside; otherwise emblem for an emblem name;
\* otherwise full.  Stated answer by answer.
C19_ItemTypeOrder ==
    ItemTypeCalled =>
        LET name == last_call.item_name
            type == last_call.item_type
            plain == ~is_component(name) /\ ~set_prefixed(name)
            radiant == plain /\ endswith(name, str_Radiant)
        IN /\ type \in {"component", "full", "artifact", "emblem", "radiant"}
           /\ type = "component" <=> is_component(name)
           /\ type = "radiant" <=> radiant
           /\ type = "artifact" <=>
                /\ ~is_component(name)
                /\ set_prefixed(name) \/ (~radiant /\ artifact_named(name))
           /\ type = "emblem" <=>
                plain /\ ~radiant /\ ~artifact_named(name) /\ emblem_named(name)

\* C19 witness: a name with the Artifact_ prefix and the Radiant suffix has
\* been classified, and the answer is radiant.
C19_Witness ==
    /\ ItemTypeCalled
    /\ startswith(last_call.item_name, str_Artifact_)
    /\ endswith(last_call.item_name, str_Radiant)
    /\ last_call.item_type = "radiant"

GateReached ==
    \/ last_call.op = "aipw_ate" /\ last_call.result.raised \in {"none", "OverlapError"}
    \/ last_call.op = "cluster_adjusted" /\ last_call.result.gate

\* C14 as stated: past the sample checks, a point estimate is produced
\* exactly when n_used >= max(200, 0.05 n), n_treated_used >= 50 and
\* n_control_used >= 50 (0.05 n the exact twentieth of n).
C14_GateExactFivePercent ==
    GateReached =>
        (last_call.estimate <=>
            /\ last_call.n_used >= 200
            /\ 20 * last_call.n_used >= last_call.n
            /\ last_call.n_treated_used >= 50
            /\ last_call.n_control_used >= 50)

\* C14 amended: a point estimate is produced exactly when
\* n_used >= max(200, floor(0.05 n)), n_treated_used >= 50 and
\* n_control_used >= 50; otherwise aipw_ate raises OverlapError and the
\* cluster-adjusted row has no estimate.
C14_GateFloorFivePercent ==
    GateReached =>
        /\ last_call.estimate <=>
             /\ last_call.n_used >= 200
             /\ 20 * (last_call.n_used + 1) > last_call.n
             /\ last_call.n_treated_used >= 50
             /\ last_call.n_control_used >= 50
        /\ (~last_call.estimate /\ last_call.op = "aipw_ate")
             => last_call.result.raised = "OverlapError"

\* C14 witness: 4010 rows of which trimming keeps 200, 100 of them treated:
\* 200 is floor(200.5) and the estimate is produced.
C14_Witness ==
    /\ last_call.op = "aipw_ate"
    /\ last_call.n = 4010
    /\ last_call.n_used = 200
    /\ last_call.estimate

Served(endpoint) == response.endpoint = endpoint /\ response.status_code = 200

Top4Names == {"top4", "top_4", "topfour"}

NoFilters(req) == req.include_filters = <<>> /\ req.exclude_filters = <<>>

CachedRows == {row \in response.body.items : row.necessity.source = "cache"}

\* C13: a precomputed necessity-cache entry is served only when the outcome
\* is top4, there is no include filter and no exclude filter, and the scope
\* asked for is the scope_min_star stored with the entry (/item-units asks
\* for no scope and always has outcome top4).
C13_CacheOnlyInDefaultContext ==
    /\ Served("unit_items") =>
         \A row \in CachedRows :
            /\ response.body.request.necessity_outcome \in Top4Names
            /\ NoFilters(response.body.request)
            /\ row.necessity.stored_scope = response.body.scope
    /\ Served("item_units") =>
         \A row \in CachedRows : NoFilters(response.body.request)
    /\ (Served("item_necessity") /\ response.body.cached) =>
            /\ response.body.request.outcome \in Top4Names
            /\ NoFilters(response.body.request)
            /\ response.body.stored_scope = response.body.scope.unit_stars_min

HasField(r, f) == f \in DOMAIN r

\* C15: in /item-necessity an insufficient sample (fewer than 50 treated or
\* fewer than 50 control boards) and an overlap failure of the estimator are
\* answered with status 200, effect null and a warning (the overlap failure
\* with its warnings list too); the endpoint never answers 500.
C15_FailuresAreValues ==
    response.endpoint = "item_necessity" =>
        /\ response.status_code \in {200, 404, 503}
        /\ (response.status_code = 200 /\ HasField(response.body, "treatment")) =>
              LET body == response.body
                  too_few == body.treatment.n_treated < 50 \/ body.treatment.n_control < 50
                  overlap_failed ==
                      /\ HasField(body, "overlap")
                      /\ HasField(body.overlap, "n_treated_used")
              IN /\ too_few => (body.effect = NullEffect /\ body.warning # "None")
                 /\ overlap_failed =>
                      /\ body.effect = NullEffect
                      /\ body.warning # "None"
                      /\ body.warnings # <<>>
                 /\ body.effect = NullEffect => (too_few \/ overlap_failed)

\* C15 witness: an overlap failure answered as a value, after a request whose
\* groups were large enough to reach the estimator.
C15_Witness ==
    /\ Served("item_necessity")
    /\ HasField(response.body, "overlap")
    /\ response.body.effect = NullEffect
    /\ response.body.treatment.n_treated >= 50
    /\ response.body.treatment.n_control >= 50
    /\ response.body.overlap.n_used < 200

ClustersCalled == last_call.op = "compute_clusters"

\* C17: in every clustering result every returned cluster has size at least
\* min_cluster_size, and the sizes of the returned clusters sum to at most
\* n_base.
C17_ClusterSizes ==
    ClustersCalled =>
        LET clusters == last_call.result.clusters
            size_of == [c \in clusters |-> c.size]
        IN /\ \A c \in clusters : c.size >= last_call.params.min_cluster_size
           /\ SumOver(size_of, clusters) <= last_call.n_base

\* C17 witness: a result with a returned cluster and rows left unassigned,
\* their cluster being below the size threshold.
C17_Witness ==
    /\ ClustersCalled
    /\ last_call.result.clusters # {}
    /\ \E c \in last_call.result.clusters : c.size < last_call.n_base
    /\ Cardinality(last_call.result.clusters) = 1
    /\ last_call.params.min_cluster_size >= 2


\* ---------------------------------------------------------------------
\* C20.  Whenever a step removes the entry of a key from the cluster-result
\* cache or from the membership cache (capacity eviction or TTL expiry), the
\* step is taken by the thread holding _CACHE_LOCK, inside one body of the
\* lock, and after it the key is in neither cache.
KeysOf(od) == {od[i].key : i \in DOMAIN od}

C20_PairedRemoval ==
    [][\A k \in KeysOf(CACHE) \cup KeysOf(MEMBERS_CACHE) :
          (\/ has_key(CACHE, k) /\ ~has_key(CACHE', k)
           \/ has_key(MEMBERS_CACHE, k) /\ ~has_key(MEMBERS_CACHE', k))
          => /\ CACHE_LOCK \in CacheThreads
             /\ CACHE_LOCK' = 0
             /\ ~has_key(CACHE', k)
             /\ ~has_key(MEMBERS_CACHE', k)]_vars

\* The result cache is full, holds the key stored after capacity was reached,
\* and the oldest key has left both caches before any entry could expire.
C20_Witness ==
    /\ clock = 0
    /\ Len(CACHE) = CACHE_MAX
    /\ has_key(CACHE, CACHE_MAX + 1)
    /\ ~has_key(CACHE, 1)
    /\ ~has_key(MEMBERS_CACHE, 1)


\* ---------------------------------------------------------------------
\* C24.  A step in which an endpoint answers or an engine query method
\* returns leaves the engine as it was: AllPlayers, the token bitmaps and
\* statistics, the placements, the token map, the labels and the necessity
\* arrays.
QueryStep == response' # response \/ last_call' # last_call

C24_QueriesLeaveEngine == [][QueryStep => UNCHANGED engine_vars]_vars

\* /item-necessity has answered for a two-star scope: `base_bitmap &= stars_bm`
\* has taken boards out of the base that the unit's stored bitmap still holds.
C24_Witness ==
    /\ Served("item_necessity")
    /\ response.body.scope.unit_stars_min = 2
    /\ response.body.base.n > 0
    /\ item_necessity_base(response.body.request) # bitmap_of("U:A")
    /\ item_necessity_base(response.body.request) # {}


\* ---------------------------------------------------------------------
\* C21.  Whatever the threads have done, the cluster-result cache and the
\* membership cache each hold at most CACHE_MAX (24) entries.
C21_CacheBounded ==
    /\ Len(CACHE) <= CACHE_MAX
    /\ Len(MEMBERS_CACHE) <= CACHE_MAX

\* Both caches are full and hold the key stored after capacity was reached.
C21_Witness ==
    /\ Len(CACHE) = CACHE_MAX
    /\ Len(MEMBERS_CACHE) = CACHE_MAX
    /\ has_key(CACHE, CACHE_MAX + 1)
    /\ has_key(MEMBERS_CACHE, CACHE_MAX + 1)

\* ---------------------------------------------------------------------
\* C22.  A lookup (_cache_get, _members_get) that finds an entry stored more
\* than CACHE_TTL_S (600 s) before the time the lookup read does not return
\* it: the entry leaves both caches and the caller goes the way of a miss.
LookupPcs == {"cc_get_body", "pb_get_body", "pb_mget_body", "pb_mget2_body"}

LookedUp(t) ==
    IF threads[t].pc \in {"cc_get_body", "pb_get_body"} THEN CACHE ELSE MEMBERS_CACHE

Stale(t) ==
    /\ has_key(LookedUp(t), threads[t].key)
    /\ threads[t].now - entry_of(LookedUp(t), threads[t].key).ts > CACHE_TTL_S

MissPath(t) ==
    CASE threads[t].pc = "cc_get_body" -> threads'[t].pc = "cc_compute"
      [] threads[t].pc = "pb_get_body" ->
           threads'[t].pc = "cc_get_wait" /\ threads'[t].ret = "pb_mget_wait"
      [] threads[t].pc = "pb_mget_body" ->
           threads'[t].pc = "cc_get_wait" /\ threads'[t].ret = "pb_mget2_wait"
      [] threads[t].pc = "pb_mget2_body" ->
           threads'[t].pc = "pb_answer" /\ threads'[t].members = {}

C22_NoStaleHit ==
    [][\A t \in CacheThreads :
          (/\ threads[t].pc \in LookupPcs
           /\ threads'[t] # threads[t]
           /\ Stale(t))
          => /\ MissPath(t)
             /\ ~has_key(CACHE', threads[t].key)
             /\ ~has_key(MEMBERS_CACHE', threads[t].key)]_vars

\* A /clusters request for a key cached before the clock moved has missed on
\* the expired entry: it is computing, and the key is in neither cache.
C22_Witness ==
    /\ threads[1].pc = "cc_compute"
    /\ threads[1].key = CACHE_MAX
    /\ threads[1].now > CACHE_TTL_S
    /\ threads[2].pc = "idle"
    /\ ~has_key(CACHE, CACHE_MAX)
    /\ ~has_key(MEMBERS_CACHE, CACHE_MAX)

\* ---------------------------------------------------------------------
\* C23.  A thread that computes clusters does not hold _CACHE_LOCK: the lock
\* is held only inside the body of a cache function, and the result of a miss
\* is stored by a later body.
BodyPcs == {body_of(pc) : pc \in WaitPcs}

C23_ComputeOutsideLock ==
    \A t \in CacheThreads :
        /\ threads[t].pc = "cc_compute" => CACHE_LOCK # t
        /\ CACHE_LOCK = t => threads[t].pc \in BodyPcs

\* One thread computes clusters while the other holds the lock.
C23_Witness ==
    /\ threads[1].pc = "cc_compute"
    /\ CACHE_LOCK = 2

\* ---------------------------------------------------------------------
\* C26.  A playbook request that finds the cluster it was asked for in the
\* cluster result of its key holds the membership of that cluster: it does
\* not answer "Cluster membership unavailable".
C26_MembershipAvailable ==
    \A t \in CacheThreads :
        (/\ threads[t].pc = "pb_answer"
         /\ threads[t].cluster_id \in clusters_of(threads[t].key))
        => threads[t].cluster_id \in threads[t].members


\* ---------------------------------------------------------------------
\* C25.  Each of the three item-count proxies of a row equals the full-board
\* total minus the count of the items equipped on the target unit on that
\* board, in the build-time precompute and in the on-demand computation.
ProxiesCalled == last_call.op = "board_strength"

unit_rows_of(rows, unit) == SelectSeq(rows, LAMBDA row : row.unit_name = unit)

RestExpected ==
    LET total == last_call.total
        on_unit == board_counts(unit_rows_of(last_call.rows, last_call.unit))
    IN [item_count |-> total.item_count - on_unit.item_count,
        component_count |-> total.component_count - on_unit.component_count,
        completed_item_count |->
            total.completed_item_count - on_unit.completed_item_count]

C25_RestOfBoardProxies ==
    ProxiesCalled
    => /\ last_call.precompute = RestExpected
       /\ last_call.on_demand = RestExpected

\* ---------------------------------------------------------------------
\* C27: in every reachable state of the voice rate limiter, whatever the
\* interleaving of the session-creation requests, the global counter of
\* concurrent session creations is at least 0 and at most
\* VOICE_MAX_CONCURRENT_SESSION_CREATIONS.
C27_ConcurrentBounded ==
    /\ voice_global_state.concurrent >= 0
    /\ voice_global_state.concurrent <= VOICE_MAX_CONCURRENT_SESSION_CREATIONS

\* All the slots are taken and a further request was turned away as busy.
C27_Witness ==
    /\ voice_global_state.concurrent = VOICE_MAX_CONCURRENT_SESSION_CREATIONS
    /\ \E r \in VoiceRequests :
           /\ voice_requests[r].status = 429
           /\ voice_requests[r].detail = "Voice is busy right now. Try again in a few seconds."

\* ---------------------------------------------------------------------
\* C28: every request the rate limiter admits releases its slot exactly
\* once, on each of the exit paths (success, upstream error response,
\* connection failure), and a rejected request releases none: the counter
\* always equals the number of admitted requests still in flight, each
\* exit of such a request takes one from it and nothing else does, so the
\* counter is 0 whenever no request is in flight.
InFlight == {r \in VoiceRequests : voice_requests[r].pc = "posting"}

C28_SlotReleasedOnce ==
    /\ voice_global_state.concurrent = Cardinality(InFlight)
    /\ InFlight = {} => voice_global_state.concurrent = 0

\* Nothing is in flight after requests have left on each of the three exit
\* paths and one has been rejected.
C28_Witness ==
    /\ InFlight = {}
    /\ voice_global_state.concurrent = 0
    /\ \A status \in {200, 500, 502, 429} :
           \E r \in VoiceRequests : voice_requests[r].pc = "done"
                                    /\ voice_requests[r].status = status

\* ---------------------------------------------------------------------
\* C29: once mark_scraped(p) has run for a player p, get_next_to_scrape
\* does not return p again until 5 minutes have elapsed, whatever calls of
\* add_to_scrape_queue happen in between (p re-added as a participant of a
\* newly scraped match included).
Selected(p) == scraper.pc = "scraping" /\ scraper.puuid = p

C29_RescrapeCooldown ==
    \A p \in Puuids :
        Selected(p) /\ marked_at[p] # Never
            => scrape_clock - marked_at[p] >= RESCRAPE_MINUTES

\* ---------------------------------------------------------------------
\* C30: a queued player whose scrape keeps raising does not block the
\* queue: while the loop runs, if the scrapes of p raise again and again
\* and never succeed, every other player that is queued and due is
\* eventually selected for its scrape.
Raised(p) == scraper.pc = "error" /\ scraper.puuid = p

Due(q) == q \in due(scrape_queue, scrape_clock)

C30_FailingPlayerDoesNotBlock ==
    \A p, q \in Puuids :
        p # q =>
            (([]<>Raised(p) /\ [](marked_at[p] = Never))
                => [](Due(q) => <>Selected(q)))
====
